---- MODULE Spec2Model ----
(***************************************************************************)
(* Model of single-site-deployment/rebuild-and-deploy.py: the pipeline     *)
(* driver main() and the stage functions it calls.  Every external         *)
(* command the script runs is one step; its exit code is an input drawn    *)
(* from {0, 1}.  The sequence of commands actually executed is kept in     *)
(* log, so ordering and "never executed" properties are state predicates.  *)
(***************************************************************************)
EXTENDS Integers, Sequences, FiniteSets, TLC

VARIABLES
    pc,               \* position of the script
    args,             \* parsed command line flags
    toolsMissing,     \* binaries that are not installed on the host
    clusters,         \* kind clusters that exist on the host
    images,           \* images in the local docker image store
    disk,             \* trust files present under build/certs
    log,              \* external commands executed so far, <<op, exit code>>
    exitCode,         \* -1 while running, else the process exit code
    faults,           \* number of abnormal inputs injected so far
    idx,              \* loop index of the loop being executed
    failed_services,  \* build_images: services whose build failed
    failed_loads,     \* load_images: services whose load failed
    toDelete,         \* clean_everything: clusters still to delete
    missing,          \* files the script found to be absent
    errors,           \* messages printed with print_error
    bootstrap_otp,    \* create_cert_secrets: the OTP value that is published
    published,        \* trust objects that exist in the cluster
    podReady,         \* stages whose pods are ready in the cluster
    pfState,          \* Keycloak port-forward process: none/running/signaled/exited
    pfSignals,        \* number of SIGTERM sent to the port-forward process
    pending,          \* exception propagating through the finally block
    report,           \* show_status: what the final listing displayed
    ctx,              \* test-api.py: TestContext, the token and the IDs obtained
    stats,            \* test-api.py: TestStats counters, failed_tests by its length
    logs_already_printed, \* test-api.py: the service logs were collected
    issued,           \* test-api.py: API requests sent so far, <<op, kind>>
    children,         \* test-api.py: port-forward processes that are running
    held,             \* test-api.py: main's keycloak_pf and api_pf handles
    reg,              \* test-api.py: locals of perform_site_registration
    pods,             \* diagnose-deployment.py: what kubectl get pods answered
    pod_issues        \* diagnose-deployment.py: the issues get_pod_status found

vars == << pc, args, toolsMissing, clusters, images, disk, log, exitCode,
           faults, idx, failed_services, failed_loads, toDelete, missing,
           errors, bootstrap_otp, published, podReady, pfState, pfSignals, pending,
           report, ctx, stats, logs_already_printed, issued, children, held,
           reg, pods, pod_issues >>

(***************************************************************************)
(* Bounds                                                                  *)
(***************************************************************************)
MaxFaults == 1
MaxMissingTools == 1

(***************************************************************************)
(* Configuration of the script                                             *)
(***************************************************************************)
CLUSTER_NAME == "carbide-single-site"
OTHER_CLUSTER == "other-cluster"
BASE_IMAGE == "carbide-base-runtime"
SERVICES == << "carbide-rest-api", "carbide-rest-workflow",
               "carbide-rest-site-manager", "carbide-site-agent",
               "carbide-rest-db", "carbide-rest-cert-manager" >>
ServiceNames == { SERVICES[i] : i \in 1..Len(SERVICES) }
Tools == { "docker", "kind", "kubectl" }
ExitCodes == { 0, 1 }
TrustFiles == { "certs_dir", "bootstrap-otp.txt", "ca-cert.pem", "ca-key.pem" }

\* An abnormal input (a non-zero exit code, an absent file) is charged to the
\* fault budget of the run.
Charge(bad) ==
    /\ bad => faults < MaxFaults
    /\ faults' = IF bad THEN faults + 1 ELSE faults

Logged(op, rc) == log' = Append(log, << op, rc >>)
Ops == { log[i][1] : i \in 1..Len(log) }
Ran(op) == op \in Ops
RanOk(op) == \E i \in 1..Len(log) : log[i] = << op, 0 >>

(***************************************************************************)
(* run_command: success is "no CalledProcessError was raised", and         *)
(* subprocess.run raises it only when check is true.                       *)
(***************************************************************************)
run_command_unchecked(check, rc) == TRUE
run_command(check, rc) == IF check THEN rc = 0 ELSE TRUE

(***************************************************************************)
(* Which binary the command at each position executes.  subprocess.run     *)
(* raises FileNotFoundError for an absent binary; nothing catches it.      *)
(***************************************************************************)
ToolOf ==
    [ p \in { "clean_get_clusters", "clean_delete", "create_cluster",
              "load_base", "load_service" } |-> "kind" ] @@
    [ p \in { "clean_rmi_services", "clean_prune", "list_images" } |-> "docker" ] @@
    [ p \in { "cluster_info" } |-> "kubectl" ]
Avail == pc \notin DOMAIN ToolOf \/ ToolOf[pc] \notin toolsMissing

\* main: the flag tests that select the next phase (lines 926-959)
PcLoadSkipNamespaces == IF ~args.skip_build \/ ~args.skip_cleanup
                        THEN "load_base" ELSE "generate_certificates"
PcLoadAlways == "load_base"
PcLoad == IF ~args.skip_build \/ ~args.skip_cleanup
          THEN "load_base" ELSE "create_namespaces"
PcCluster == IF ~args.skip_cleanup THEN "create_cluster" ELSE "cluster_info"
PcBuildAlways == "build_go_binaries"
PcBuild == IF ~args.skip_build THEN "build_go_binaries" ELSE "list_images"
PcCleanup == IF ~args.skip_cleanup THEN "clean_get_clusters" ELSE PcBuild

InitialClusters == { {}, { CLUSTER_NAME, OTHER_CLUSTER } }
InitialImages == { {}, { BASE_IMAGE } \cup ServiceNames }

\* A cluster left by an earlier complete run holds the trust objects of that
\* run; its cert-issuing service has since written real material into the
\* placeholder secret site-agent-temporal-certs.
PreviousRunObjects ==
    { << "site-agent-bootstrap", "generated-otp" >>,
      << "vault-root-ca-certificate", "ca-cert" >>,
      << "vault-root-ca-private-key", "ca-key" >>,
      << "site-agent-temporal-certs", "issued" >> }

\* diagnose-deployment.py (14): the namespaces it inspects; nothing was asked
\* of the cluster and no issue was found before it runs
NAMESPACES == << "carbide-system", "carbide-site" >>
NotAsked == [ parsed |-> FALSE, items |-> << >> ]
diagVars == << pods, pod_issues >>
DiagGlobals ==
    /\ pods = [ n \in 1..Len(NAMESPACES) |-> NotAsked ]
    /\ pod_issues = << >>


\* test-api.py is a separate process: its globals (lines 86-88) as they are
\* at import, and untouched while rebuild-and-deploy.py runs
\* perform_site_registration is not running: the steps it has executed with
\* their results, the clock of the handshake wait, the CA certificate and the
\* last API answer it holds, its return value, an interrupt on its way out
NoResponse == [ success |-> FALSE, status |-> "", isOnline |-> FALSE ]
RegIdle == [ steps |-> << >>, elapsed |-> 0, ca_cert |-> "", resp |-> NoResponse,
             result |-> "none", pending |-> FALSE ]
apiVars == << ctx, stats, logs_already_printed, issued, children, held, reg >>
ApiGlobals ==
    /\ ctx = [ token |-> "unset", ids |-> {} ]
    /\ stats = [ total |-> 0, passed |-> 0, failed |-> 0, skipped |-> 0,
                 failed_tests |-> 0 ]
    /\ logs_already_printed = FALSE
    /\ issued = << >>
    /\ children = {}
    /\ held = {}
    /\ reg = RegIdle

Init ==
    /\ pc = "check_prerequisites"
    /\ args \in [ skip_build : BOOLEAN, skip_cleanup : BOOLEAN,
                  rebuild_base : BOOLEAN ]
    /\ toolsMissing \in { S \in SUBSET Tools : Cardinality(S) <= MaxMissingTools }
    /\ clusters \in InitialClusters
    /\ images \in InitialImages
    /\ disk = {}
    /\ log = << >>
    /\ exitCode = -1
    /\ faults = 0
    /\ idx = 1
    /\ failed_services = {}
    /\ failed_loads = {}
    /\ toDelete = << >>
    /\ missing = {}
    /\ errors = {}
    /\ bootstrap_otp = "unset"
    /\ published = IF CLUSTER_NAME \in clusters THEN PreviousRunObjects ELSE {}
    /\ podReady = {}
    /\ pfState = "none"
    /\ pfSignals = 0
    /\ pending = FALSE
    /\ report = {}
    /\ ApiGlobals
    /\ DiagGlobals

\* sys.exit(code), or the interpreter ending on an uncaught exception
Exit(code) == pc' = "exit" /\ exitCode' = code

\* variables of the later phases, untouched by the earlier ones
trustVars == << disk, bootstrap_otp, published >>
rolloutVars == << podReady, pfState, pfSignals, pending, report >>
hostVars == << clusters, images >>
inputVars == << args, toolsMissing, apiVars, diagVars >>

(***************************************************************************)
(* check_prerequisites (lines 92-114) and main's test of it (922-924)      *)
(***************************************************************************)
WhichRc(tool) == IF tool \in toolsMissing THEN 1 ELSE 0
check_prerequisites ==
    /\ pc = "check_prerequisites"
    /\ LET missingTools == { t \in Tools : ~run_command(FALSE, WhichRc(t)) }
       IN  /\ log' = log \o << << "which:docker", WhichRc("docker") >>,
                               << "which:kind", WhichRc("kind") >>,
                               << "which:kubectl", WhichRc("kubectl") >> >>
           /\ IF missingTools # {}
              THEN /\ Exit(1)
                   /\ errors' = errors \cup { "Missing tools" }
              ELSE /\ pc' = PcCleanup
                   /\ UNCHANGED << exitCode, errors >>
    /\ UNCHANGED << inputVars, hostVars, faults, idx, failed_services, failed_loads,
                    toDelete, missing, trustVars, rolloutVars >>

(***************************************************************************)
(* clean_everything (lines 117-169)                                        *)
(***************************************************************************)
\* kind lists the clusters in name order
ClusterListNamedOnly(cs) ==
    IF CLUSTER_NAME \in cs THEN << CLUSTER_NAME >> ELSE << >>
ClusterList(cs) ==
    IF cs = {} THEN << >>
    ELSE IF cs = { CLUSTER_NAME } THEN << CLUSTER_NAME >>
    ELSE IF cs = { OTHER_CLUSTER } THEN << OTHER_CLUSTER >>
    ELSE << CLUSTER_NAME, OTHER_CLUSTER >>

clean_get_clusters ==
    /\ pc = "clean_get_clusters" /\ Avail
    /\ \E rc \in ExitCodes :
        /\ Logged("kind_get_clusters", rc)
        /\ Charge(rc # 0)
        /\ IF rc = 0 /\ clusters # {}
           THEN toDelete' = ClusterList(clusters) /\ pc' = "clean_delete"
           ELSE toDelete' = << >> /\ pc' = "clean_rmi_base"
    /\ UNCHANGED << inputVars, hostVars, exitCode, idx, failed_services, failed_loads,
                    missing, errors, trustVars, rolloutVars >>

clean_delete ==
    /\ pc = "clean_delete" /\ Avail
    /\ toDelete # << >>
    /\ \E rc \in ExitCodes :
        /\ Logged("kind_delete:" \o Head(toDelete), rc)
        /\ Charge(rc # 0)
        /\ clusters' = IF rc = 0 THEN clusters \ { Head(toDelete) } ELSE clusters
        \* the objects of a deleted cluster are gone with it
        /\ published' = IF rc = 0 /\ Head(toDelete) = CLUSTER_NAME
                         THEN {} ELSE published
    /\ toDelete' = Tail(toDelete)
    /\ pc' = IF Len(toDelete) = 1 THEN "clean_rmi_base" ELSE "clean_delete"
    /\ UNCHANGED << inputVars, images, exitCode, idx, failed_services, failed_loads,
                    missing, errors, disk, bootstrap_otp, rolloutVars >>

\* line 143: if remove_base_image
remove_base_always(flag) == TRUE
remove_base_image(flag) == flag
clean_rmi_base ==
    /\ pc = "clean_rmi_base"
    /\ IF remove_base_image(args.rebuild_base)
       THEN IF "docker" \in toolsMissing
            THEN Exit(1) /\ UNCHANGED << log, images >>
            ELSE /\ Logged("docker_rmi:" \o BASE_IMAGE, 0)
                 /\ images' = images \ { BASE_IMAGE }
                 /\ pc' = "clean_rmi_services"
                 /\ UNCHANGED exitCode
       ELSE /\ pc' = "clean_rmi_services"
            /\ UNCHANGED << log, images, exitCode >>
    /\ UNCHANGED << inputVars, clusters, faults, idx, failed_services, failed_loads,
                    toDelete, missing, errors, trustVars, rolloutVars >>

clean_rmi_services ==
    /\ pc = "clean_rmi_services" /\ Avail
    /\ log' = log \o [ i \in 1..Len(SERVICES) |-> << "docker_rmi:" \o SERVICES[i], 0 >> ]
    /\ images' = images \ ServiceNames
    /\ pc' = "clean_prune"
    /\ UNCHANGED << inputVars, clusters, exitCode, faults, idx, failed_services, failed_loads,
                    toDelete, missing, errors, trustVars, rolloutVars >>

\* the prune ends clean_everything, which returns True; main goes on to the build
clean_prune ==
    /\ pc = "clean_prune" /\ Avail
    /\ Logged("docker_builder_prune", 0)
    /\ pc' = PcBuild
    /\ UNCHANGED << inputVars, hostVars, exitCode, faults, idx, failed_services, failed_loads,
                    toDelete, missing, errors, trustVars, rolloutVars >>

(***************************************************************************)
(* build_go_binaries (172-192), check_base_image_exists (195-208),         *)
(* build_base_runtime_image (211-246), build_images (249-313)              *)
(***************************************************************************)
build_go_binaries ==
    /\ pc = "build_go_binaries"
    /\ \E exists \in BOOLEAN :
        IF ~exists
        THEN /\ Charge(TRUE)
             /\ missing' = missing \cup { "build-binaries.sh" }
             /\ errors' = errors \cup { "Build script not found", "Build failed" }
             /\ Exit(1)
             /\ UNCHANGED log
        ELSE \E rc \in ExitCodes :
             /\ Charge(rc # 0)
             /\ Logged("build_binaries", rc)
             /\ UNCHANGED missing
             /\ IF rc = 0
                THEN pc' = "build_base" /\ UNCHANGED << exitCode, errors >>
                ELSE Exit(1) /\ errors' = errors \cup { "Build failed" }
    /\ UNCHANGED << inputVars, hostVars, idx, failed_services, failed_loads, toDelete,
                    trustVars, rolloutVars >>

\* docker images -q: a failing query counts as "image absent"
check_base_image_exists(rc) == rc = 0 /\ BASE_IMAGE \in images

build_base_always(force_rebuild, rcQuery) == TRUE
build_base_needed(force_rebuild, rcQuery) ==
    ~(~force_rebuild /\ check_base_image_exists(rcQuery))

\* the docker build of the base image, after the cache test decided to build
build_base_run(queries) ==
    \E exists \in BOOLEAN :
        IF ~exists
        THEN /\ Charge(TRUE)
             /\ missing' = missing \cup { "Dockerfile.base-runtime" }
             /\ errors' = errors \cup { "Base runtime Dockerfile not found",
                                        "Build failed" }
             /\ Exit(1)
             /\ log' = log \o queries
             /\ UNCHANGED << images, idx >>
        ELSE IF "docker" \in toolsMissing
        THEN /\ Exit(1)
             /\ UNCHANGED << log, images, idx, faults, missing, errors >>
        ELSE \E rc \in ExitCodes :
             /\ Charge(rc # 0)
             /\ log' = log \o queries \o << << "docker_build:" \o BASE_IMAGE, rc >> >>
             /\ UNCHANGED missing
             /\ IF rc = 0
                THEN /\ images' = images \cup { BASE_IMAGE }
                     /\ pc' = "build_service" /\ idx' = 1
                     /\ UNCHANGED << exitCode, errors >>
                ELSE /\ Exit(1)
                     /\ errors' = errors \cup { "Build failed" }
                     /\ UNCHANGED << images, idx >>

build_base_runtime_image ==
    /\ pc = "build_base"
    /\ IF args.rebuild_base
       THEN build_base_run(<< >>)
       ELSE IF "docker" \in toolsMissing
       THEN /\ Exit(1)
            /\ UNCHANGED << log, images, idx, faults, missing, errors >>
       ELSE \E rcQuery \in ExitCodes :
            IF build_base_needed(args.rebuild_base, rcQuery)
            THEN /\ rcQuery # 0 => faults < MaxFaults
                 /\ build_base_run(<< << "docker_images_q", rcQuery >> >>)
            ELSE /\ Charge(FALSE)
                 /\ Logged("docker_images_q", rcQuery)
                 /\ pc' = "build_service" /\ idx' = 1
                 /\ UNCHANGED << images, exitCode, missing, errors >>
    /\ UNCHANGED << inputVars, clusters, failed_services, failed_loads, toDelete,
                    trustVars, rolloutVars >>

\* one iteration of the loop over SERVICES (270-301)
build_service ==
    /\ pc = "build_service"
    /\ idx \in 1..Len(SERVICES)
    /\ \E exists \in BOOLEAN :
        IF ~exists
        THEN /\ Charge(TRUE)
             /\ missing' = missing \cup { "Dockerfile." \o SERVICES[idx] }
             /\ errors' = errors \cup { "Dockerfile not found" }
             /\ failed_services' = failed_services \cup { SERVICES[idx] }
             /\ UNCHANGED << log, images >>
        ELSE \E rc \in ExitCodes :
             /\ Charge(rc # 0)
             /\ Logged("docker_build:" \o SERVICES[idx], rc)
             /\ UNCHANGED << missing, errors >>
             /\ IF rc = 0
                THEN /\ images' = images \cup { SERVICES[idx] }
                     /\ UNCHANGED failed_services
                ELSE /\ failed_services' = failed_services \cup { SERVICES[idx] }
                     /\ UNCHANGED images
    /\ IF idx = Len(SERVICES)
       THEN pc' = "build_result" /\ idx' = 1
       ELSE pc' = "build_service" /\ idx' = idx + 1
    /\ UNCHANGED << inputVars, clusters, exitCode, failed_loads, toDelete, trustVars,
                    rolloutVars >>

\* lines 303-313 and main's test of the result (936-938)
build_images_any(failed) == failed # ServiceNames
build_images(failed) == failed = {}
build_result ==
    /\ pc = "build_result"
    /\ IF ~build_images(failed_services)
       THEN /\ Exit(1)
            /\ errors' = errors \cup { "Build failed" }
            /\ UNCHANGED log
       ELSE /\ Logged("docker_images", 0)
            /\ pc' = PcCluster
            /\ UNCHANGED << exitCode, errors >>
    /\ UNCHANGED << inputVars, hostVars, faults, idx, failed_services, failed_loads,
                    toDelete, missing, trustVars, rolloutVars >>

\* main with --skip-build (939-942)
list_images ==
    /\ pc = "list_images" /\ Avail
    /\ Logged("docker_images", 0)
    /\ pc' = PcCluster
    /\ UNCHANGED << inputVars, hostVars, exitCode, faults, idx, failed_services, failed_loads,
                    toDelete, missing, errors, trustVars, rolloutVars >>

(***************************************************************************)
(* create_cluster (316-335) and main (944-951)                             *)
(***************************************************************************)
create_cluster ==
    /\ pc = "create_cluster" /\ Avail
    /\ \E rc \in ExitCodes :
        \* kind refuses to create a cluster whose name is taken
        /\ CLUSTER_NAME \in clusters => rc # 0
        /\ Charge(rc # 0 /\ CLUSTER_NAME \notin clusters)
        /\ Logged("kind_create_cluster", rc)
        /\ IF run_command(TRUE, rc)
           THEN /\ clusters' = clusters \cup { CLUSTER_NAME }
                /\ pc' = PcLoad
                /\ UNCHANGED << exitCode, errors >>
           ELSE /\ Exit(1)
                /\ errors' = errors \cup { "Failed to create cluster" }
                /\ UNCHANGED clusters
    /\ UNCHANGED << inputVars, images, idx, failed_services, failed_loads, toDelete,
                    missing, trustVars, rolloutVars >>

cluster_info ==
    /\ pc = "cluster_info" /\ Avail
    /\ Logged("kubectl_cluster_info", 0)
    /\ pc' = PcLoad
    /\ UNCHANGED << inputVars, hostVars, exitCode, faults, idx, failed_services, failed_loads,
                    toDelete, missing, errors, trustVars, rolloutVars >>

(***************************************************************************)
(* load_images (338-387) and main (953-959)                                *)
(***************************************************************************)
\* kind load needs the cluster and the image; kubectl needs the cluster
ClusterUp == CLUSTER_NAME \in clusters
Loadable(image) == ClusterUp /\ image \in images

load_base ==
    /\ pc = "load_base" /\ Avail
    /\ \E rc \in ExitCodes :
        /\ ~Loadable(BASE_IMAGE) => rc # 0
        /\ Charge(rc # 0 /\ Loadable(BASE_IMAGE))
        /\ Logged("kind_load:" \o BASE_IMAGE, rc)
        /\ IF run_command(FALSE, rc)
           THEN /\ pc' = "load_service" /\ idx' = 1
                /\ UNCHANGED << exitCode, errors >>
           ELSE /\ Exit(1)
                /\ errors' = errors \cup { "Failed to load images" }
                /\ UNCHANGED idx
    /\ UNCHANGED << inputVars, hostVars, failed_services, failed_loads, toDelete,
                    missing, trustVars, rolloutVars >>

\* one iteration of the loop over SERVICES (365-380)
load_service ==
    /\ pc = "load_service" /\ Avail
    /\ idx \in 1..Len(SERVICES)
    /\ \E rc \in ExitCodes :
        /\ ~Loadable(SERVICES[idx]) => rc # 0
        /\ Charge(rc # 0 /\ Loadable(SERVICES[idx]))
        /\ Logged("kind_load:" \o SERVICES[idx], rc)
        /\ failed_loads' = IF run_command(FALSE, rc) THEN failed_loads
                           ELSE failed_loads \cup { SERVICES[idx] }
    /\ IF idx = Len(SERVICES)
       THEN pc' = "load_result" /\ idx' = 1
       ELSE pc' = "load_service" /\ idx' = idx + 1
    /\ UNCHANGED << inputVars, hostVars, exitCode, failed_services, toDelete,
                    missing, errors, trustVars, rolloutVars >>

\* lines 382-387 and main's test of the result (955-957)
load_result ==
    /\ pc = "load_result"
    /\ IF failed_loads # {}
       THEN Exit(1) /\ errors' = errors \cup { "Failed to load images" }
       ELSE pc' = "create_namespaces" /\ UNCHANGED << exitCode, errors >>
    /\ UNCHANGED << inputVars, hostVars, log, faults, idx, failed_services,
                    failed_loads, toDelete, missing, trustVars, rolloutVars >>

(***************************************************************************)
(* create_namespaces (390-414) and main (961-964)                          *)
(***************************************************************************)
create_namespaces ==
    /\ pc = "create_namespaces"
    /\ \E exists \in BOOLEAN :
        IF ~exists
        THEN /\ Charge(TRUE)
             /\ missing' = missing \cup { "namespaces.yaml" }
             /\ errors' = errors \cup { "Namespaces file not found",
                                        "Failed to create namespaces" }
             /\ Exit(1)
             /\ UNCHANGED log
        ELSE IF "kubectl" \in toolsMissing
        THEN Exit(1) /\ UNCHANGED << log, faults, missing, errors >>
        ELSE \E rc \in ExitCodes :
             /\ ~ClusterUp => rc # 0
             /\ Charge(rc # 0 /\ ClusterUp)
             /\ Logged("apply:namespaces.yaml", rc)
             /\ UNCHANGED missing
             /\ IF rc = 0
                THEN pc' = "generate_certificates" /\ UNCHANGED << exitCode, errors >>
                ELSE Exit(1) /\ errors' = errors \cup { "Failed to create namespaces" }
    /\ UNCHANGED << inputVars, hostVars, idx, failed_services, failed_loads, toDelete,
                    trustVars, rolloutVars >>

(***************************************************************************)
(* generate_certificates (417-438) and main (966-969)                      *)
(***************************************************************************)
\* what the certificate script can leave under build/certs when it exits 0
GeneratedDisks == { TrustFiles, {} } \cup
                  { TrustFiles \ { f } : f \in TrustFiles \ { "certs_dir" } }

generate_certificates ==
    /\ pc = "generate_certificates"
    /\ \E exists \in BOOLEAN :
        IF ~exists
        THEN /\ Charge(TRUE)
             /\ missing' = missing \cup { "generate-certs.sh" }
             /\ errors' = errors \cup { "Certificate generation script not found",
                                        "Failed to generate certificates" }
             /\ Exit(1)
             /\ UNCHANGED << log, disk >>
        ELSE \E rc \in ExitCodes, d \in GeneratedDisks :
             /\ Charge(rc # 0 \/ d # TrustFiles)
             /\ rc # 0 => d = {}
             /\ Logged("generate_certs", rc)
             /\ UNCHANGED missing
             /\ IF run_command(TRUE, rc)
                THEN /\ disk' = d
                     /\ pc' = "ccs_read"
                     /\ UNCHANGED << exitCode, errors >>
                ELSE /\ Exit(1)
                     /\ errors' = errors \cup { "Failed to generate certificates" }
                     /\ UNCHANGED disk
    /\ UNCHANGED << inputVars, hostVars, idx, failed_services, failed_loads,
                    toDelete, bootstrap_otp, published, rolloutVars >>

(***************************************************************************)
(* create_cert_secrets (441-581) and main (971-974)                        *)
(***************************************************************************)
\* lines 445-476: reading the trust files
ccs_read ==
    /\ pc = "ccs_read"
    /\ IF "certs_dir" \notin disk
       THEN /\ Exit(1)
            /\ errors' = errors \cup { "Certificates directory not found",
                                       "Failed to create certificate secrets" }
            /\ UNCHANGED bootstrap_otp
       ELSE /\ bootstrap_otp' = IF "bootstrap-otp.txt" \in disk
                                THEN "generated-otp" ELSE "dev-default-otp"
            /\ IF "ca-cert.pem" \notin disk
               THEN /\ Exit(1)
                    /\ errors' = errors \cup
                         ( IF "bootstrap-otp.txt" \in disk THEN {}
                           ELSE { "OTP file not found, using default" } ) \cup
                         { "CA certificate not found",
                           "Failed to create certificate secrets" }
               ELSE IF "ca-key.pem" \notin disk
               THEN /\ Exit(1)
                    /\ errors' = errors \cup
                         ( IF "bootstrap-otp.txt" \in disk THEN {}
                           ELSE { "OTP file not found, using default" } ) \cup
                         { "CA private key not found",
                           "Failed to create certificate secrets" }
               ELSE /\ pc' = "ccs_configmap"
                    /\ errors' = errors \cup
                         ( IF "bootstrap-otp.txt" \in disk THEN {}
                           ELSE { "OTP file not found, using default" } )
                    /\ UNCHANGED exitCode
    /\ UNCHANGED << inputVars, hostVars, disk, log, faults, idx, failed_services,
                    failed_loads, toDelete, missing, published, rolloutVars >>

\* kubectl apply creates the object or overwrites the one of that name
Upsert(objs, name, value) ==
    { o \in objs : o[1] # name } \cup { << name, value >> }
ObjectNames(objs) == { o[1] : o \in objs }

\* one "render, then apply" of a trust object; the exit code of the apply is
\* not looked at
PublishAlways(name, value, rc) == Upsert(published, name, value)
Publish(name, value, rc) ==
    IF rc = 0 THEN Upsert(published, name, value) ELSE published

ccs_step(here, name, value, next, renders) ==
    /\ pc = here
    /\ \E rc \in ExitCodes :
        /\ Charge(rc # 0)
        /\ log' = log \o [ i \in 1..renders |-> << "render:" \o name, 0 >> ]
                      \o << << "apply:" \o name, rc >> >>
        /\ published' = Publish(name, value, rc)
    /\ pc' = next
    /\ UNCHANGED << inputVars, hostVars, disk, exitCode, idx, failed_services,
                    failed_loads, toDelete, missing, errors, bootstrap_otp,
                    rolloutVars >>

\* lines 478-509
ccs_configmap ==
    ccs_step("ccs_configmap", "site-agent-bootstrap", bootstrap_otp, "ccs_ca_cert", 0)
\* lines 511-533
ccs_ca_cert ==
    ccs_step("ccs_ca_cert", "vault-root-ca-certificate", "ca-cert", "ccs_ca_key", 2)
\* lines 535-548
ccs_ca_key ==
    ccs_step("ccs_ca_key", "vault-root-ca-private-key", "ca-key", "ccs_placeholder", 1)
\* lines 552-581; the function returns True and main goes on to deploy_services
ccs_placeholder ==
    ccs_step("ccs_placeholder", "site-agent-temporal-certs", "empty", "d_crds", 2)

(***************************************************************************)
(* deploy_services (584-843)                                               *)
(***************************************************************************)
SCHEMA_STATEMENTS == << "create_db_temporal", "create_db_temporal_visibility",
                        "grant_temporal", "grant_temporal_visibility",
                        "create_db_keycloak", "create_user_keycloak",
                        "grant_keycloak", "grant_schema_keycloak",
                        "alter_owner_keycloak" >>
services_first_swapped == << "cloud-api.yaml", "cert-manager.yaml", "workflow.yaml" >>
services_first == << "cert-manager.yaml", "cloud-api.yaml", "workflow.yaml" >>

\* the manifest whose pods each readiness wait selects
WaitManifest ==
    [ s \in { "postgres" } |-> "databases" ] @@
    [ s \in { "migrations" } |-> "migrations-job.yaml" ] @@
    [ s \in { "temporal" } |-> "temporal.yaml" ] @@
    [ s \in { "keycloak" } |-> "keycloak.yaml" ] @@
    [ s \in { "cloud-api" } |-> "cloud-api.yaml" ]
WaitStages == DOMAIN WaitManifest

\* pods selected by a wait can exist only if their manifest was applied in this
\* run or the cluster was kept from an earlier run
CanBeReady(s) == args.skip_cleanup \/ Ran("apply:" \o WaitManifest[s])

\* variables no step of deploy_services writes
deployFrame == << inputVars, hostVars, exitCode, failed_services, failed_loads,
                  toDelete, trustVars >>

\* kubectl apply of a manifest without a test that the file exists
apply_step(here, manifest, next) ==
    /\ pc = here
    /\ \E rc \in ExitCodes :
        /\ Charge(rc # 0)
        /\ Logged("apply:" \o manifest, rc)
    /\ pc' = next
    /\ UNCHANGED << deployFrame, idx, missing, errors, rolloutVars >>

\* "if file.exists(): kubectl apply ... else: print_error(...)"
apply_if_exists(here, manifest, next, otherwise) ==
    /\ pc = here
    /\ \E exists \in BOOLEAN :
        IF exists
        THEN \E rc \in ExitCodes :
             /\ Charge(rc # 0)
             /\ Logged("apply:" \o manifest, rc)
             /\ pc' = next
             /\ UNCHANGED << missing, errors >>
        ELSE /\ Charge(TRUE)
             /\ missing' = missing \cup { manifest }
             /\ errors' = errors \cup { "not found: " \o manifest }
             /\ pc' = otherwise
             /\ UNCHANGED log
    /\ UNCHANGED << deployFrame, idx, rolloutVars >>

\* kubectl wait with a timeout, check=False, result not looked at
wait_step_abort(here, s, next) ==
    /\ pc = here
    /\ \E rc \in ExitCodes :
        \* pods that cannot exist are never ready: that timeout is no fault
        /\ Charge(rc # 0 /\ CanBeReady(s))
        /\ rc = 0 => CanBeReady(s)
        /\ s \in podReady => rc = 0
        /\ Logged("wait:" \o s, rc)
        /\ podReady' = IF rc = 0 THEN podReady \cup { s } ELSE podReady
        /\ IF rc = 0 THEN pc' = next /\ exitCode' = exitCode
           ELSE pc' = "exit" /\ exitCode' = 1
    /\ UNCHANGED << inputVars, hostVars, failed_services, failed_loads,
                    toDelete, trustVars, idx, missing, errors, pfState,
                    pfSignals, pending, report >>
wait_step_unbounded(here, s, next) ==
    /\ pc = here
    /\ CanBeReady(s)
    /\ Charge(FALSE)
    /\ Logged("wait:" \o s, 0)
    /\ podReady' = podReady \cup { s }
    /\ pc' = next
    /\ UNCHANGED << deployFrame, idx, missing, errors, pfState, pfSignals,
                    pending, report >>
wait_step(here, s, next) ==
    /\ pc = here
    /\ \E rc \in ExitCodes :
        \* pods that cannot exist are never ready: that timeout is no fault
        /\ Charge(rc # 0 /\ CanBeReady(s))
        /\ rc = 0 => CanBeReady(s)
        /\ s \in podReady => rc = 0
        /\ Logged("wait:" \o s, rc)
        /\ podReady' = IF rc = 0 THEN podReady \cup { s } ELSE podReady
    /\ pc' = next
    /\ UNCHANGED << deployFrame, idx, missing, errors, pfState, pfSignals,
                    pending, report >>

\* lines 590-594: the CRD directory is applied when it exists, silently skipped
\* otherwise
d_crds ==
    /\ pc = "d_crds"
    /\ \E exists \in BOOLEAN :
        IF exists
        THEN \E rc \in ExitCodes :
             /\ Charge(rc # 0)
             /\ Logged("apply:crds", rc)
             /\ UNCHANGED missing
        ELSE /\ Charge(TRUE)
             /\ missing' = missing \cup { "crds" }
             /\ UNCHANGED log
    /\ pc' = "d_databases"
    /\ UNCHANGED << deployFrame, idx, errors, rolloutVars >>

\* lines 596-598
d_databases_nowait == apply_step("d_databases", "databases", "d_schema")
d_databases == apply_step("d_databases", "databases", "d_wait_postgres")
\* lines 600-612
d_wait_postgres == wait_step("d_wait_postgres", "postgres", "d_schema")

\* lines 614-674: one psql statement through kubectl exec, result not looked at
d_schema_failfast ==
    /\ pc = "d_schema"
    /\ idx \in 1..Len(SCHEMA_STATEMENTS)
    /\ \E rc \in ExitCodes :
        /\ Charge(rc # 0)
        /\ Logged("psql:" \o SCHEMA_STATEMENTS[idx], rc)
        /\ IF idx = Len(SCHEMA_STATEMENTS) \/ rc # 0
           THEN pc' = "d_migrations" /\ idx' = 1
           ELSE pc' = "d_schema" /\ idx' = idx + 1
    /\ UNCHANGED << deployFrame, missing, errors, rolloutVars >>
d_schema ==
    /\ pc = "d_schema"
    /\ idx \in 1..Len(SCHEMA_STATEMENTS)
    /\ \E rc \in ExitCodes :
        /\ Charge(rc # 0)
        /\ Logged("psql:" \o SCHEMA_STATEMENTS[idx], rc)
    /\ IF idx = Len(SCHEMA_STATEMENTS)
       THEN pc' = "d_migrations" /\ idx' = 1
       ELSE pc' = "d_schema" /\ idx' = idx + 1
    /\ UNCHANGED << deployFrame, missing, errors, rolloutVars >>

\* lines 676-678
d_migrations == apply_step("d_migrations", "migrations-job.yaml", "d_wait_migrations")
\* lines 680-696
d_wait_migrations == wait_step("d_wait_migrations", "migrations", "d_temporal")
\* lines 698-700
d_temporal == apply_step("d_temporal", "temporal.yaml", "d_wait_temporal")
\* lines 702-721
d_wait_temporal == wait_step("d_wait_temporal", "temporal", "d_keycloak")
\* lines 723-727 and 771-772
d_keycloak == apply_if_exists("d_keycloak", "keycloak.yaml", "d_wait_keycloak", "d_core")
\* lines 729-739
d_wait_keycloak == wait_step("d_wait_keycloak", "keycloak", "pf_spawn")

\* lines 741-750 and 769-770: Popen of the port-forward when the configuration
\* script exists
pf_spawn ==
    /\ pc = "pf_spawn"
    /\ \E exists \in BOOLEAN :
        IF exists
        THEN /\ Charge(FALSE)
             /\ Logged("port_forward:keycloak", 0)
             /\ pfState' = "running"
             /\ pc' = "pf_held"
             /\ UNCHANGED << missing, errors >>
        ELSE /\ Charge(TRUE)
             /\ missing' = missing \cup { "configure-keycloak.sh" }
             /\ errors' = errors \cup { "not found: configure-keycloak.sh" }
             /\ pc' = "d_core"
             /\ UNCHANGED << log, pfState >>
    /\ UNCHANGED << deployFrame, idx, podReady, pfSignals, pending, report >>

\* line 752: control enters the try block
pf_enter_try ==
    /\ pc = "pf_held"
    /\ pc' = "pf_sleep"
    /\ UNCHANGED << deployFrame, log, faults, idx, missing, errors, rolloutVars >>

\* lines 753-754: time.sleep(3)
pf_sleep ==
    /\ pc = "pf_sleep"
    /\ pc' = "pf_script"
    /\ UNCHANGED << deployFrame, log, faults, idx, missing, errors, rolloutVars >>

\* lines 756-765: the configuration script, its failure is only printed
pf_script ==
    /\ pc = "pf_script"
    /\ \E rc \in ExitCodes :
        /\ Charge(rc # 0)
        /\ Logged("configure_keycloak", rc)
        /\ errors' = IF rc = 0 THEN errors
                     ELSE errors \cup { "Keycloak configuration failed" }
    /\ pc' = "pf_finally"
    /\ UNCHANGED << deployFrame, idx, missing, rolloutVars >>

\* line 767: finally: pf_process.send_signal(SIGTERM)
pf_send_signal_none(n) == n
pf_send_signal(n) == n + 1
pf_finally ==
    /\ pc = "pf_finally"
    /\ pfSignals' = pf_send_signal(pfSignals)
    /\ pfState' = IF pfSignals' > pfSignals THEN "signaled" ELSE pfState
    /\ pc' = "pf_wait"
    /\ UNCHANGED << deployFrame, log, faults, idx, missing, errors, podReady,
                    pending, report >>

\* line 768: pf_process.wait(timeout=5) either reaps the process or raises
\* TimeoutExpired; afterwards a pending exception leaves deploy_services
pf_wait_noreap ==
    /\ pc = "pf_wait"
    /\ pc' = "d_core" /\ idx' = 1
    /\ UNCHANGED << deployFrame, log, faults, missing, errors, rolloutVars >>
pf_wait ==
    /\ pc = "pf_wait"
    /\ \E reaped \in BOOLEAN :
        /\ Charge(~reaped)
        /\ reaped => pfState = "signaled"
        /\ IF reaped
           THEN /\ pfState' = "exited"
                /\ IF pending THEN Exit(130)
                   ELSE pc' = "d_core" /\ idx' = 1 /\ UNCHANGED exitCode
           ELSE /\ Exit(1)
                /\ UNCHANGED pfState
        /\ pending \/ ~reaped => UNCHANGED idx
    /\ UNCHANGED << inputVars, hostVars, failed_services, failed_loads, toDelete,
                    trustVars, log, missing, errors, podReady, pfSignals,
                    pending, report >>

\* lines 774-790: one iteration of the loop over services_first
d_core ==
    /\ pc = "d_core"
    /\ idx \in 1..Len(services_first)
    /\ \E exists \in BOOLEAN :
        IF exists
        THEN \E rc \in ExitCodes :
             /\ Charge(rc # 0)
             /\ Logged("apply:" \o services_first[idx], rc)
             /\ UNCHANGED << missing, errors >>
        ELSE /\ Charge(TRUE)
             /\ missing' = missing \cup { services_first[idx] }
             /\ errors' = errors \cup { "not found: " \o services_first[idx] }
             /\ UNCHANGED log
    /\ IF idx = Len(services_first)
       THEN pc' = "d_rbac" /\ idx' = 1
       ELSE pc' = "d_core" /\ idx' = idx + 1
    /\ UNCHANGED << deployFrame, rolloutVars >>

\* lines 792-796 and 811-812
d_rbac == apply_if_exists("d_rbac", "site-manager-rbac.yaml", "d_rbac_check",
                          "d_site_manager")

\* lines 797-810: the grace period and the permission check, whose answer is
\* only printed
d_rbac_check ==
    /\ pc = "d_rbac_check"
    /\ \E answer \in { "yes", "no" } :
        /\ Charge(answer # "yes")
        /\ log' = log \o << << "sleep:30", 0 >>,
                            << "auth_can_i:" \o answer, 0 >> >>
    /\ pc' = "d_site_manager"
    /\ UNCHANGED << deployFrame, idx, missing, errors, rolloutVars >>

\* lines 814-820
d_site_manager == apply_if_exists("d_site_manager", "site-manager.yaml",
                                  "d_wait_cloud_api", "d_wait_cloud_api")
\* lines 822-830
d_wait_cloud_api == wait_step("d_wait_cloud_api", "cloud-api", "d_site_agent")
\* lines 835-843
d_site_agent == apply_if_exists("d_site_agent", "site-agent.yaml",
                                "show_status", "show_status")

(***************************************************************************)
(* show_status (846-861) and the end of main (979-986)                     *)
(***************************************************************************)
\* the listing shows the pods as they are now: for every deployed stage,
\* whether its pods are ready
PodListing == { << s, s \in podReady >> : s \in { t \in WaitStages : CanBeReady(t) } }

show_status ==
    /\ pc = "show_status"
    /\ log' = log \o << << "get_pods:carbide-system", 0 >>,
                        << "get_pods:carbide-site", 0 >> >>
    /\ report' = PodListing
    /\ pc' = "done"
    /\ exitCode' = 0
    /\ UNCHANGED << inputVars, hostVars, faults, idx, failed_services,
                    failed_loads, toDelete, missing, errors, trustVars,
                    podReady, pfState, pfSignals, pending >>

(***************************************************************************)
(* Environment                                                             *)
(***************************************************************************)
Running == pc \notin { "exit", "done" }

\* pods of a stage whose wait timed out become ready later on; the script looks
\* at the pods again only in show_status, so the step is taken just before it
LatePodReady ==
    /\ pc = "show_status"
    /\ \E s \in WaitStages :
        /\ << "wait:" \o s, 1 >> \in { log[i] : i \in 1..Len(log) }
        /\ s \notin podReady
        /\ CanBeReady(s)
        /\ podReady' = podReady \cup { s }
    /\ UNCHANGED << pc, inputVars, hostVars, disk, log, exitCode, faults, idx,
                    failed_services, failed_loads, toDelete, missing, errors,
                    bootstrap_otp, published, pfState, pfSignals, pending,
                    report >>

\* subprocess raises FileNotFoundError when the binary of the command at this
\* position is not installed; no handler catches it
ToolNotFound ==
    /\ Running
    /\ ~Avail
    /\ Exit(1)
    /\ UNCHANGED << inputVars, hostVars, disk, log, faults, idx, failed_services,
                    failed_loads, toDelete, missing, errors, bootstrap_otp,
                    published, rolloutVars >>

\* the operator interrupt: KeyboardInterrupt is raised at the current position.
\* Inside the try block (752-765) it is routed through the finally block;
\* anywhere else no handler is in scope and the interpreter exits.
InTry == pc \in { "pf_sleep", "pf_script" }
Interrupt ==
    /\ Running
    /\ Charge(TRUE)
    /\ IF InTry
       THEN pending' = TRUE /\ pc' = "pf_finally" /\ UNCHANGED exitCode
       ELSE Exit(130) /\ UNCHANGED pending
    /\ UNCHANGED << inputVars, hostVars, disk, log, idx, failed_services,
                    failed_loads, toDelete, missing, errors, bootstrap_otp,
                    published, podReady, pfState, pfSignals, report >>

Next ==
    \/ check_prerequisites
    \/ clean_get_clusters \/ clean_delete \/ clean_rmi_base
    \/ clean_rmi_services \/ clean_prune
    \/ build_go_binaries \/ build_base_runtime_image \/ build_service
    \/ build_result \/ list_images
    \/ create_cluster \/ cluster_info
    \/ load_base \/ load_service \/ load_result
    \/ create_namespaces \/ generate_certificates
    \/ ccs_read \/ ccs_configmap \/ ccs_ca_cert \/ ccs_ca_key \/ ccs_placeholder
    \/ d_crds \/ d_databases \/ d_wait_postgres \/ d_schema
    \/ d_migrations \/ d_wait_migrations \/ d_temporal \/ d_wait_temporal
    \/ d_keycloak \/ d_wait_keycloak
    \/ pf_spawn \/ pf_enter_try \/ pf_sleep \/ pf_script \/ pf_finally \/ pf_wait
    \/ d_core \/ d_rbac \/ d_rbac_check \/ d_site_manager
    \/ d_wait_cloud_api \/ d_site_agent
    \/ show_status
    \/ LatePodReady \/ ToolNotFound \/ Interrupt

Spec == Init /\ [][Next]_vars

\* The script is one thread that executes its next statement whenever the
\* command it waits for has returned.
FairSpec == Spec /\ WF_vars(Next)

TypeOK ==
    /\ exitCode \in { -1, 0, 1, 130 }
    /\ faults \in 0..MaxFaults + 1
    /\ pfState \in { "none", "running", "signaled", "exited" }

(***************************************************************************)
(* Vocabulary of the properties                                            *)
(***************************************************************************)
Entries == { log[i] : i \in 1..Len(log) }
TimedOut(s) == << "wait:" \o s, 1 >> \in Entries

WhichOps == { "which:" \o t : t \in Tools }
CleanOps == { "kind_get_clusters", "docker_builder_prune" } \cup
            { "kind_delete:" \o c : c \in { CLUSTER_NAME, OTHER_CLUSTER } } \cup
            { "docker_rmi:" \o i : i \in { BASE_IMAGE } \cup ServiceNames }
BuildCmds == { "build_binaries" } \cup
             { "docker_build:" \o i : i \in { BASE_IMAGE } \cup ServiceNames }
BuildOps == BuildCmds \cup { "docker_images_q", "docker_images" }
DeleteCreateCmds == { "kind_create_cluster" } \cup
                    { "kind_delete:" \o c : c \in { CLUSTER_NAME, OTHER_CLUSTER } }
ClusterOps == { "kind_create_cluster", "kubectl_cluster_info" }
LoadOps == { "kind_load:" \o i : i \in { BASE_IMAGE } \cup ServiceNames }

\* ordinal of the phase of main that executes a command
Phase(op) ==
    IF op \in WhichOps THEN 0
    ELSE IF op \in CleanOps THEN 1
    ELSE IF op \in BuildOps THEN 2
    ELSE IF op \in ClusterOps THEN 3
    ELSE IF op \in LoadOps THEN 4
    ELSE IF op = "apply:namespaces.yaml" THEN 5
    ELSE IF op = "generate_certs" THEN 6
    ELSE 7

\* manifests of the rollout stages that deploy_services tests for existence
RolloutManifests == { "keycloak.yaml", "cert-manager.yaml", "cloud-api.yaml",
                      "workflow.yaml", "site-manager-rbac.yaml",
                      "site-manager.yaml", "site-agent.yaml" }
AllManifests == RolloutManifests \cup
                { "databases", "migrations-job.yaml", "temporal.yaml" }
TrustObjects == { "site-agent-bootstrap", "vault-root-ca-certificate",
                  "vault-root-ca-private-key" }
InDeploy == \E op \in Ops : op \in { "apply:" \o m : m \in AllManifests \cup { "crds" } }
AfterPf == { "d_core", "d_rbac", "d_rbac_check", "d_site_manager",
             "d_wait_cloud_api", "d_site_agent", "show_status", "done" }

\* the dependency pairs of the rollout: << readiness wait of the predecessor
\* stage, apply of the predecessor's manifest, commands of the dependent stage >>
StageDeps ==
    { << "wait:postgres", "apply:databases",
         { "psql:" \o SCHEMA_STATEMENTS[i] : i \in 1..Len(SCHEMA_STATEMENTS) }
           \cup { "apply:migrations-job.yaml" } >>,
      << "wait:migrations", "apply:migrations-job.yaml", { "apply:temporal.yaml" } >>,
      << "wait:temporal", "apply:temporal.yaml", { "apply:keycloak.yaml" } >>,
      << "wait:keycloak", "apply:keycloak.yaml",
         { "apply:" \o services_first[i] : i \in 1..Len(services_first) }
           \cup { "apply:site-manager-rbac.yaml", "apply:site-manager.yaml" } >>,
      << "wait:cloud-api", "apply:cloud-api.yaml", { "apply:site-agent.yaml" } >> }

\* the dependency of each command of a dependent stage
DepOf == [ op \in UNION { d[3] : d \in StageDeps } |->
             CHOOSE d \in StageDeps : op \in d[3] ]

C1_StepAfterWaitReturned ==
    \A k \in (Len(log) + 1)..Len(log') :
        \A d \in StageDeps :
            log'[k][1] \in d[3] /\
            ( \E i \in 1..(k - 1) : log'[i][1] = d[2] ) =>
                \E j \in 1..(k - 1) : log'[j][1] = d[1]

C2_SkipFlags ==
    /\ args.skip_build => Ops \cap BuildCmds = {}
    /\ args.skip_cleanup => Ops \cap DeleteCreateCmds = {}
    /\ args.skip_build /\ args.skip_cleanup =>
        /\ Ops \cap (CleanOps \cup BuildCmds \cup DeleteCreateCmds \cup LoadOps) = {}
        /\ pc = "create_namespaces" => Ops \subseteq
               WhichOps \cup { "docker_images", "kubectl_cluster_info" }
        /\ pc = "done" => /\ Ran("apply:namespaces.yaml")
                          /\ Ran("generate_certs")
                          /\ Ran("apply:databases")

C2_Witness ==
    args.skip_build /\ args.skip_cleanup /\ pc = "done"

(***************************************************************************)
(* C3 (as stated): a missing manifest of a rollout stage stops the run     *)
(* with a non-zero exit code and no manifest of a later stage is applied.  *)
(***************************************************************************)
C3_MissingManifestIsFatal ==
    /\ missing \cap RolloutManifests # {} => pc = "exit" /\ exitCode = 1
    /\ "site-manager.yaml" \in missing => ~Ran("apply:site-agent.yaml")

(***************************************************************************)
(* C4 (as stated): deploy_services starts only after the certificates were *)
(* generated and the bootstrap ConfigMap and both CA secrets exist in the  *)
(* cluster.                                                                *)
(***************************************************************************)
C4_DeployOnlyAfterTrustPublished ==
    InDeploy \/ pc = "d_crds" =>
        /\ RanOk("generate_certs")
        /\ TrustObjects \subseteq ObjectNames(published)

(***************************************************************************)
(* C5 (as stated): with a prerequisite tool missing the run exits non-zero *)
(* in check_prerequisites, before any other command is executed.           *)
(***************************************************************************)
C5_MissingToolIsFatal ==
    toolsMissing # {} /\ pc # "check_prerequisites" =>
        /\ pc = "exit" /\ exitCode = 1
        /\ Ops \subseteq WhichOps

(***************************************************************************)
(* C6: once the port-forward is spawned and control left the try body, by  *)
(* success or failure of the configuration script or by an exception       *)
(* raised inside the body, SIGTERM is sent to the port-forward exactly     *)
(* once, and the process has been reaped whenever the core services are    *)
(* applied.  Every way out of the try body leads into the finally block.   *)
(***************************************************************************)
C6_Inv ==
    /\ pfSignals <= 1
    /\ pfState # "none" /\ pc \in { "pf_wait" } \cup AfterPf => pfSignals = 1
    /\ pending => pc \in { "pf_finally", "pf_wait", "exit" }
    /\ pending /\ pc = "exit" /\ exitCode = 1 => pfSignals = 1
    /\ pc \in AfterPf => pfState \in { "none", "exited" }
    /\ pc \in AfterPf /\ Ran("port_forward:keycloak") =>
           pfState = "exited" /\ pfSignals = 1
C6_TryBodyExits ==
    pc \in { "pf_sleep", "pf_script" } /\ pc' \notin { "pf_sleep", "pf_script" }
        => pc' = "pf_finally" /\ pfState' = "running"
C6_PortForwardTerminatedOnce == []C6_Inv /\ [][C6_TryBodyExits]_vars

C6_Witness ==
    /\ << "configure_keycloak", 1 >> \in Entries
    /\ pc = "d_core"
    /\ pfState = "exited" /\ pfSignals = 1

(***************************************************************************)
(* C7 (as stated): whenever the orchestrator process has exited, the       *)
(* port-forward process is not left running.                               *)
(***************************************************************************)
C7_NoPortForwardLeftRunning ==
    pc \in { "exit", "done" } => pfState # "running"

(***************************************************************************)
(* C8: a failed build, cluster creation, namespace creation or certificate *)
(* generation ends the run with a non-zero exit code; after the failure no *)
(* command of a later phase is executed (the build loop alone finishes its *)
(* remaining service builds); exit code 0 implies none of them failed.     *)
(***************************************************************************)
\* the phase a failed command is fatal for, 9 for a command that is not
FailPhase(e) ==
    IF e[2] = 0 THEN 9
    ELSE IF e[1] \in BuildCmds THEN 2
    ELSE IF e[1] = "kind_create_cluster" THEN 3
    ELSE IF e[1] = "apply:namespaces.yaml" THEN 5
    ELSE IF e[1] = "generate_certs" THEN 6
    ELSE 9
\* the same for a file that was found absent
AbsentPhase(f) ==
    IF f \in { "build-binaries.sh", "Dockerfile.base-runtime" }
              \cup { "Dockerfile." \o sv : sv \in ServiceNames } THEN 2
    ELSE IF f = "namespaces.yaml" THEN 5
    ELSE IF f = "generate-certs.sh" THEN 6
    ELSE 9
Aborted(p) ==
    \/ pc = "exit" /\ exitCode # 0
    \/ p = 2 /\ pc \in { "build_service", "build_result" }

C8_FatalFailuresAbort ==
    /\ \A i \in 1..Len(log) :
        FailPhase(log[i]) # 9 =>
            /\ \A j \in (i + 1)..Len(log) : Phase(log[j][1]) <= FailPhase(log[i])
            /\ Aborted(FailPhase(log[i]))
    /\ \A f \in missing :
        AbsentPhase(f) # 9 =>
            /\ \A j \in 1..Len(log) : Phase(log[j][1]) <= AbsentPhase(f)
            /\ Aborted(AbsentPhase(f))
    /\ exitCode = 0 =>
        /\ pc = "done"
        /\ \A i \in 1..Len(log) : FailPhase(log[i]) = 9
        /\ \A f \in missing : AbsentPhase(f) = 9

C8_Witness ==
    /\ << "kind_create_cluster", 1 >> \in Entries
    /\ pc = "exit" /\ exitCode = 1

(***************************************************************************)
(* C9: a readiness wait that timed out does not abort the run: the run     *)
(* exits 1 after it only through the port-forward reaping timeout, and a   *)
(* run that completes has applied every manifest that exists, produced the *)
(* status listing and exits 0, as a run without the timeout does.          *)
(***************************************************************************)
C9_TimeoutIsSoft ==
    /\ exitCode = 1 /\ (\E s \in WaitStages : TimedOut(s)) =>
           pc = "exit" /\ pfState = "signaled"
    /\ pc = "done" =>
        /\ exitCode = 0
        /\ report # {}
        /\ Ran("get_pods:carbide-system") /\ Ran("get_pods:carbide-site")
        /\ \A m \in AllManifests : Ran("apply:" \o m) \/ m \in missing

C9_Witness ==
    /\ TimedOut("temporal")
    /\ pc = "done" /\ exitCode = 0
    /\ Ran("apply:site-agent.yaml")

(***************************************************************************)
(* C10 (as stated): the final report surfaces every stage that did not     *)
(* reach Ready: a stage whose readiness wait did not succeed is shown as   *)
(* not ready in the report of a completed run.                             *)
(***************************************************************************)
C10_ReportSurfacesNonReady ==
    pc = "done" =>
        \A s \in WaitStages :
            ~RanOk("wait:" \o s) => << s, FALSE >> \in report

(***************************************************************************)
(* The commands that go through run_command, with the check argument of    *)
(* their call site (lines 100, 328, 356, 377, 427).                        *)
(***************************************************************************)
RunCommandCheck ==
    [ op \in WhichOps \cup LoadOps |-> FALSE ] @@
    [ op \in { "kind_create_cluster", "generate_certs" } |-> TRUE ]
\* positions of main at which the next command is a run_command call of a
\* binary in Tools
RunCommandSites == { "create_cluster", "load_base", "load_service" }

(***************************************************************************)
(* C11 (as stated): for every command executed through run_command, in     *)
(* both modes, the result succeeded is True exactly when the process       *)
(* exited with code 0; a service load that exited non-zero was reported to *)
(* load_images as failed.                                                  *)
(***************************************************************************)
C11_SucceededIffExitZero ==
    /\ \A i \in 1..Len(log) :
        log[i][1] \in DOMAIN RunCommandCheck =>
            ( run_command(RunCommandCheck[log[i][1]], log[i][2]) <=> log[i][2] = 0 )
    /\ \A sv \in ServiceNames :
        << "kind_load:" \o sv, 1 >> \in Entries => sv \in failed_loads

(***************************************************************************)
(* C12 (as stated): no exception crosses run_command: at a call site of    *)
(* run_command the run is never ended by the exception raised for a        *)
(* missing binary.                                                         *)
(***************************************************************************)
C12_StepReturnsResult == pc \in RunCommandSites => ~ToolNotFound
C12_NoExceptionCrossesRunCommand == [][C12_StepReturnsResult]_vars

(***************************************************************************)
(* C13 (as stated): load_images attempts the load of the base image and of *)
(* every service, and the run exits non-zero after load_images whenever a  *)
(* load command exited non-zero.                                           *)
(***************************************************************************)
C13_LoadFailureFailsPhase ==
    /\ pc = "load_result" => LoadOps \subseteq Ops
    /\ ( /\ pc \notin { "load_base", "load_service", "load_result" }
         /\ \E i \in 1..Len(log) : log[i][1] \in LoadOps /\ log[i][2] # 0 )
        => pc = "exit" /\ exitCode # 0

(***************************************************************************)
(* Vocabulary of the base image step: the commands the step that leaves    *)
(* build_base_runtime_image has executed.  An interrupted step is not a    *)
(* return of the function.                                                 *)
(***************************************************************************)
BaseBuildOp == "docker_build:" \o BASE_IMAGE
BaseStepReturns == pc = "build_base" /\ pc' # "build_base" /\ exitCode' # 130
NewEntries == { log'[k] : k \in (Len(log) + 1)..Len(log') }
BaseBuildsRun ==
    Cardinality({ k \in (Len(log) + 1)..Len(log') : log'[k][1] = BaseBuildOp })

(***************************************************************************)
(* C14 (as stated): the base image build command is executed zero times,   *)
(* with success, when the image exists and force_rebuild is false, and     *)
(* exactly once when force_rebuild is true or the image does not exist.    *)
(***************************************************************************)
C14_StepAsStated ==
    BaseStepReturns =>
        /\ BASE_IMAGE \in images /\ ~args.rebuild_base =>
               BaseBuildsRun = 0 /\ pc' = "build_service"
        /\ args.rebuild_base \/ BASE_IMAGE \notin images => BaseBuildsRun = 1
C14_BuildOnceUnlessImageExists == [][C14_StepAsStated]_vars

(***************************************************************************)
(* C14 (amended): the build command is executed zero times, with success,  *)
(* when force_rebuild is false and the image query succeeds and reports    *)
(* the image.  In every other case it is executed at most once: the        *)
(* function returns success only after exactly one build that exited 0,    *)
(* and when no build was executed (Dockerfile absent, docker not           *)
(* executable) the build phase fails.  With force_rebuild the image query  *)
(* is not made.                                                            *)
(***************************************************************************)
CacheHit ==
    /\ ~args.rebuild_base
    /\ BASE_IMAGE \in images
    /\ << "docker_images_q", 0 >> \in NewEntries
C14_StepCachePolicy ==
    BaseStepReturns =>
        /\ ~Ran(BaseBuildOp)
        /\ BaseBuildsRun <= 1
        /\ CacheHit => BaseBuildsRun = 0 /\ pc' = "build_service"
        /\ args.rebuild_base => "docker_images_q" \notin { e[1] : e \in NewEntries }
        /\ ~CacheHit /\ pc' = "build_service" =>
               BaseBuildsRun = 1 /\ << BaseBuildOp, 0 >> \in NewEntries
        /\ ~CacheHit /\ pc' # "build_service" =>
               /\ pc' = "exit" /\ exitCode' = 1
               /\ << BaseBuildOp, 0 >> \notin NewEntries
C14_CacheHitPolicy == [][C14_StepCachePolicy]_vars

C14_Witness ==
    /\ pc = "build_service"
    /\ ~args.rebuild_base
    /\ << "docker_images_q", 0 >> \in Entries
    /\ ~Ran(BaseBuildOp)

(***************************************************************************)
(* C15: build_images does not fail fast over the services.  When the loop  *)
(* over SERVICES has ended, every service was either built with a docker   *)
(* build command or recorded as failed because its Dockerfile is absent,   *)
(* whatever the earlier builds did; the result is True exactly when every  *)
(* service build exited 0, and main exits 1 on a False result.  When the   *)
(* compilation of the binaries fails, no image build is executed and the   *)
(* run exits 1.                                                            *)
(***************************************************************************)
ServiceBuildOps == { "docker_build:" \o sv : sv \in ServiceNames }
AllServicesBuilt == \A sv \in ServiceNames : RanOk("docker_build:" \o sv)
C15_Inv ==
    /\ pc = "build_result" =>
        /\ \A sv \in ServiceNames :
            Ran("docker_build:" \o sv) \/ ("Dockerfile." \o sv) \in missing
        /\ failed_services = { sv \in ServiceNames : ~RanOk("docker_build:" \o sv) }
        /\ build_images(failed_services) <=> AllServicesBuilt
    /\ pc # "exit" =>
        /\ << "build_binaries", 1 >> \notin Entries
        /\ "build-binaries.sh" \notin missing
    /\ pc = "exit" /\ ( << "build_binaries", 1 >> \in Entries
                         \/ "build-binaries.sh" \in missing ) =>
        /\ exitCode = 1
        /\ Ops \cap (ServiceBuildOps \cup { BaseBuildOp }) = {}
C15_ResultStep ==
    pc = "build_result" /\ pc' # "build_result" /\ exitCode' # 130 =>
        IF AllServicesBuilt
        THEN pc' = PcCluster /\ exitCode' = -1
        ELSE pc' = "exit" /\ exitCode' = 1
C15_BuildAllThenAnd == []C15_Inv /\ [][C15_ResultStep]_vars

C15_Witness ==
    /\ pc = "exit" /\ exitCode = 1
    /\ << "docker_build:" \o SERVICES[1], 1 >> \in Entries
    /\ \A i \in 2..Len(SERVICES) : RanOk("docker_build:" \o SERVICES[i])

(***************************************************************************)
(* C16 (as stated): in a run with skip-build, no step of the run removes   *)
(* an image from the local image store.                                    *)
(***************************************************************************)
C16_StepKeepsImages == args.skip_build => images \subseteq images'
C16_SkipBuildKeepsImages == [][C16_StepKeepsImages]_vars

(***************************************************************************)
(* C17 (as stated): in a run with skip-cleanup against the cluster of an   *)
(* earlier run, whose placeholder secret site-agent-temporal-certs holds   *)
(* the material issued by the cert-issuing service, the secret keeps that  *)
(* material.                                                               *)
(***************************************************************************)
C17_RerunKeepsIssuedMaterial ==
    args.skip_cleanup /\ CLUSTER_NAME \in clusters =>
        << "site-agent-temporal-certs", "issued" >> \in published

(***************************************************************************)
(* C18 (as stated): when certificate generation fails, or when after it    *)
(* the CA certificate, the CA private key or the bootstrap one-time        *)
(* password is missing on disk, the run exits non-zero without publishing  *)
(* or rolling out anything; no substitute value is published.              *)
(***************************************************************************)
TrustBundle == { "ca-cert.pem", "ca-key.pem", "bootstrap-otp.txt" }
PublishOps == { "apply:site-agent-bootstrap", "apply:vault-root-ca-certificate",
                "apply:vault-root-ca-private-key",
                "apply:site-agent-temporal-certs" }
C18_NoStageWithoutTrustMaterial ==
    /\ << "generate_certs", 1 >> \in Entries \/ "generate-certs.sh" \in missing =>
           pc = "exit" /\ exitCode = 1 /\ Ops \cap PublishOps = {} /\ ~InDeploy
    /\ ( /\ RanOk("generate_certs")
         /\ pc # "ccs_read"
         /\ ~(TrustBundle \subseteq disk) ) =>
           pc = "exit" /\ exitCode # 0 /\ Ops \cap PublishOps = {} /\ ~InDeploy
    /\ bootstrap_otp # "dev-default-otp"
    /\ << "site-agent-bootstrap", "dev-default-otp" >> \notin published

(***************************************************************************)
(* C19: when the cluster loop of clean_everything has ended after a        *)
(* successful listing, a delete was issued for every cluster that still    *)
(* exists, the one named carbide-single-site or any other; a cluster that  *)
(* is gone was removed by such a delete.  With its tools installed,        *)
(* cleanup never ends the run: a failed deletion is followed by the next   *)
(* deletion and the run goes on to the phase after cleanup.                *)
(***************************************************************************)
CleanPcs == { "clean_get_clusters", "clean_delete", "clean_rmi_base",
              "clean_rmi_services", "clean_prune" }
C19_Inv ==
    /\ ( /\ pc \in { "clean_rmi_base", "clean_rmi_services", "clean_prune" }
         /\ RanOk("kind_get_clusters") ) =>
           /\ \A c \in clusters : Ran("kind_delete:" \o c)
           /\ toDelete = << >>
    /\ CLUSTER_NAME \notin clusters /\ Ran("kind_delete:" \o CLUSTER_NAME) =>
           Ran("kind_delete:" \o OTHER_CLUSTER) \/ pc \in { "clean_delete", "exit" }
C19_CleanStep ==
    ( /\ pc \in CleanPcs
      /\ toolsMissing \cap { "kind", "docker" } = {}
      /\ exitCode' # 130 ) =>
        /\ pc' \in CleanPcs \cup { PcBuild }
        /\ exitCode' = -1
        /\ pc = "clean_delete" /\ Len(toDelete) > 1 => pc' = "clean_delete"
C19_DeleteEveryCluster == []C19_Inv /\ [][C19_CleanStep]_vars

C19_Witness ==
    /\ << "kind_delete:" \o CLUSTER_NAME, 1 >> \in Entries
    /\ RanOk("kind_delete:" \o OTHER_CLUSTER)
    /\ pc = PcBuild

(***************************************************************************)
(* C20: when the schema statements of deploy_services are done, the psql   *)
(* commands executed in the run are exactly the fixed sequence, each once  *)
(* and in order, whatever their exit codes; outside the sequence no psql   *)
(* command is executed, and no statement ends the run or the sequence.     *)
(***************************************************************************)
PsqlOps == { "psql:" \o SCHEMA_STATEMENTS[i] : i \in 1..Len(SCHEMA_STATEMENTS) }
IsPsql(e) == e[1] \in PsqlOps
PsqlRun == SelectSeq(log, IsPsql)
C20_Inv ==
    pc = "d_migrations" =>
        /\ Len(PsqlRun) = Len(SCHEMA_STATEMENTS)
        /\ \A i \in 1..Len(SCHEMA_STATEMENTS) :
            PsqlRun[i][1] = "psql:" \o SCHEMA_STATEMENTS[i]
C20_SchemaStep ==
    /\ pc # "d_schema" => \A e \in NewEntries : ~IsPsql(e)
    /\ pc = "d_schema" /\ exitCode' # 130 =>
        /\ exitCode' = -1
        /\ pc' = IF idx < Len(SCHEMA_STATEMENTS) THEN "d_schema" ELSE "d_migrations"
        /\ log' # log => idx' = (idx % Len(SCHEMA_STATEMENTS)) + 1
C20_SchemaSequenceRunsThrough == []C20_Inv /\ [][C20_SchemaStep]_vars

C20_Witness ==
    /\ << "psql:" \o SCHEMA_STATEMENTS[1], 1 >> \in Entries
    /\ RanOk("psql:" \o SCHEMA_STATEMENTS[Len(SCHEMA_STATEMENTS)])
    /\ pc = "done" /\ exitCode = 0

(***************************************************************************)
(* Phases of main, as ordinals of the commands they execute: prerequisite  *)
(* check 0, cleanup 1, build 2, cluster 3, image load 4, namespaces 5,     *)
(* certificate generation 6, publication of the trust objects 7, rollout   *)
(* 8, status report 9.                                                     *)
(***************************************************************************)
RenderOps == { "render:vault-root-ca-certificate", "render:vault-root-ca-private-key",
               "render:site-agent-temporal-certs" }
StatusOps == { "get_pods:carbide-system", "get_pods:carbide-site" }
DeleteOps == { "kind_delete:" \o c : c \in { CLUSTER_NAME, OTHER_CLUSTER } }
PipelinePhase(op) ==
    IF op \in PublishOps \cup RenderOps THEN 7
    ELSE IF op \in StatusOps THEN 9
    ELSE IF Phase(op) = 7 THEN 8
    ELSE Phase(op)
\* the claim counts the deletion of a cluster as an operation of the
\* Cluster Provisioner
StatedPhase(op) == IF op \in DeleteOps THEN 3 ELSE PipelinePhase(op)
NewPositions == (Len(log) + 1)..Len(log')

(***************************************************************************)
(* C21 (as stated): the commands of a run are executed in the order of the *)
(* phases Builder, Provisioner, namespaces, Trust Bootstrapper, Rollout    *)
(* Sequencer, Status Reporter, a cluster deletion being an operation of    *)
(* the Provisioner: none is executed before a command of the build phase.  *)
(***************************************************************************)
C21_StepStatedOrder ==
    \A k \in NewPositions : \A i \in 1..(k - 1) :
        StatedPhase(log'[i][1]) <= StatedPhase(log'[k][1])
C21_PhaseOrderAsStated == [][C21_StepStatedOrder]_vars

(***************************************************************************)
(* C21 (amended): the commands of a run are executed in the order cleanup  *)
(* (which deletes the clusters), build, cluster creation, image load,      *)
(* namespaces, certificate generation, trust publication, rollout, status  *)
(* report.  No cluster creation or image load is executed before the       *)
(* build phase has finished, and no trust object is published before the   *)
(* namespaces were created.                                                *)
(***************************************************************************)
C21_StepPhaseOrder ==
    \A k \in NewPositions :
        /\ \A i \in 1..(k - 1) :
            PipelinePhase(log'[i][1]) <= PipelinePhase(log'[k][1])
        /\ log'[k][1] \in { "kind_create_cluster" } \cup LoadOps /\ ~args.skip_build =>
               /\ \E i \in 1..(k - 1) : log'[i] = << "docker_images", 0 >>
               /\ failed_services = {}
        /\ log'[k][1] \in PublishOps =>
               \E i \in 1..(k - 1) : log'[i] = << "apply:namespaces.yaml", 0 >>
C21_PhaseOrder == [][C21_StepPhaseOrder]_vars

C21_Witness ==
    /\ pc = "done"
    /\ Ran("kind_delete:" \o CLUSTER_NAME)
    /\ Ran("build_binaries")
    /\ RanOk("kind_create_cluster")
    /\ LoadOps \subseteq Ops

(***************************************************************************)
(* C22: the script holds at most one background process, the Keycloak      *)
(* port-forward.  It is spawned once, after the Keycloak readiness wait,   *)
(* and while the script runs it is alive only between the spawn and the    *)
(* reaping in the finally block: never when the core services are applied  *)
(* or later.  While it is held the only foreground command executed is the *)
(* Keycloak configuration script, and every step executes its commands one *)
(* after the other.                                                        *)
(***************************************************************************)
PfHeldPcs == { "pf_held", "pf_sleep", "pf_script", "pf_finally", "pf_wait" }
PfAlive == pfState \in { "running", "signaled" }
C22_Inv ==
    /\ PfAlive => pc \in PfHeldPcs \/ (pc = "exit" /\ exitCode # 0)
    /\ pc \in PfHeldPcs => pfState \in { "running", "signaled" }
    /\ pc \in AfterPf => ~PfAlive
    /\ pfState # "none" =>
        /\ Ran("wait:keycloak")
        /\ PfAlive => Ops \cap { "apply:" \o services_first[i] :
                                    i \in 1..Len(services_first) } = {}
C22_Step ==
    /\ \A k \in NewPositions :
        log'[k][1] = "port_forward:keycloak" =>
            /\ pfState = "none" /\ pfState' = "running"
            /\ k > 1 /\ log'[k - 1][1] = "wait:keycloak"
            /\ \A i \in 1..(k - 1) : log'[i][1] # "port_forward:keycloak"
    /\ PfAlive => \A k \in NewPositions : log'[k][1] = "configure_keycloak"
    /\ pfState = "none" /\ pfState' # "none" => pc = "pf_spawn"
C22_OneBackgroundProcess == []C22_Inv /\ [][C22_Step]_vars

C22_Witness ==
    /\ pc = "pf_wait"
    /\ pfState = "signaled"
    /\ Ran("configure_keycloak")

(***************************************************************************)
(* C23: under FairSpec, where every command returns and the script then    *)
(* executes its next statement, every run ends: it reaches a fatal exit or *)
(* the end of main.  A readiness wait returns also when its pods never     *)
(* become ready, and the index of every loop stays within the sequence the *)
(* loop iterates over.                                                     *)
(***************************************************************************)
LoopBound ==
    [ p \in { "build_service", "load_service" } |-> Len(SERVICES) ] @@
    [ p \in { "d_schema" } |-> Len(SCHEMA_STATEMENTS) ] @@
    [ p \in { "d_core" } |-> Len(services_first) ]
C23_LoopsBounded ==
    /\ pc \in DOMAIN LoopBound => idx \in 1..LoopBound[pc]
    /\ pc = "clean_delete" => Len(toDelete) \in 1..Cardinality(clusters)
C23_Terminates == []C23_LoopsBounded /\ <>(pc \in { "exit", "done" })

C23_Witness ==
    /\ pc = "done" /\ exitCode = 0
    /\ TimedOut("cloud-api")
    /\ "cloud-api.yaml" \in missing

(***************************************************************************)
(* C24 (as stated): the site-manager workload is applied only after the    *)
(* role-binding manifest was applied, the grace period has elapsed and the *)
(* permission check was performed; after a negative answer of the check    *)
(* the workload is applied as after a positive one.                        *)
(***************************************************************************)
RbacChecked == { "auth_can_i:yes", "auth_can_i:no" } \cap Ops # {}
C24_WorkloadAfterRbac ==
    /\ Ran("apply:site-manager.yaml") =>
        /\ Ran("apply:site-manager-rbac.yaml")
        /\ Ran("sleep:30")
        /\ RbacChecked
    /\ Ran("auth_can_i:no") /\ pc \in { "d_wait_cloud_api", "d_site_agent",
                                         "show_status", "done" } =>
        Ran("apply:site-manager.yaml") \/ "site-manager.yaml" \in missing

(***************************************************************************)
(* C28: the apply operations of deploy_services are executed in the fixed  *)
(* order CRDs, databases, schema statements, migrations job, Temporal,     *)
(* Keycloak, cert-manager, cloud-api, workflow, site-manager RBAC,         *)
(* site-manager, site-agent, whatever the exit codes; none is executed     *)
(* twice; the migrations job is followed at once by its bounded            *)
(* completion wait; a run that ends has executed every operation of the    *)
(* order whose manifest exists.                                            *)
(***************************************************************************)
ApplyOrder ==
    << "apply:crds", "apply:databases",
       "psql:create_db_temporal", "psql:create_db_temporal_visibility",
       "psql:grant_temporal", "psql:grant_temporal_visibility",
       "psql:create_db_keycloak", "psql:create_user_keycloak",
       "psql:grant_keycloak", "psql:grant_schema_keycloak",
       "psql:alter_owner_keycloak",
       "apply:migrations-job.yaml", "apply:temporal.yaml", "apply:keycloak.yaml",
       "apply:cert-manager.yaml", "apply:cloud-api.yaml", "apply:workflow.yaml",
       "apply:site-manager-rbac.yaml", "apply:site-manager.yaml",
       "apply:site-agent.yaml" >>
ApplyOps == { ApplyOrder[i] : i \in 1..Len(ApplyOrder) }
Rank(op) == CHOOSE i \in 1..Len(ApplyOrder) : ApplyOrder[i] = op
C28_Step ==
    \A k \in NewPositions :
        /\ log'[k][1] \in ApplyOps =>
            \A i \in 1..(k - 1) :
                log'[i][1] \in ApplyOps => Rank(log'[i][1]) < Rank(log'[k][1])
        /\ log'[k][1] = "wait:migrations" =>
            k > 1 /\ log'[k - 1][1] = "apply:migrations-job.yaml"
        /\ log'[k][1] = "apply:temporal.yaml" =>
            \E i \in 1..(k - 1) : log'[i][1] = "wait:migrations"
C28_Done ==
    pc = "done" =>
        \A i \in 1..Len(ApplyOrder) :
            \/ Ran(ApplyOrder[i])
            \/ \E m \in missing : ApplyOrder[i] = "apply:" \o m
C28_RolloutApplyOrder == []C28_Done /\ [][C28_Step]_vars

C28_Witness ==
    /\ pc = "done"
    /\ << "apply:temporal.yaml", 1 >> \in Entries
    /\ \A i \in 1..Len(ApplyOrder) : Ran(ApplyOrder[i])

(***************************************************************************)
(* C29: an image load is executed only in a run without skip-build or      *)
(* without skip-cleanup, and in such a run every image load has been       *)
(* executed when the namespaces step is reached; with both flags no image  *)
(* load is executed.  In a run that creates the cluster, the loads are     *)
(* executed only after the cluster creation succeeded.                     *)
(***************************************************************************)
BothSkipped == args.skip_build /\ args.skip_cleanup
C29_Step ==
    /\ \A k \in NewPositions :
        log'[k][1] \in LoadOps =>
            /\ ~BothSkipped
            /\ ~args.skip_cleanup =>
                   \E i \in 1..(k - 1) : log'[i] = << "kind_create_cluster", 0 >>
    /\ pc # "create_namespaces" /\ pc' = "create_namespaces" =>
        IF BothSkipped
        THEN \A i \in 1..Len(log') : log'[i][1] \notin LoadOps
        ELSE \A op \in LoadOps : \E i \in 1..Len(log') : log'[i][1] = op
C29_LoadIffNotBothSkipped == [][C29_Step]_vars

C29_Witness ==
    /\ args.skip_build /\ ~args.skip_cleanup
    /\ pc = "create_namespaces"
    /\ LoadOps \subseteq Ops

(***************************************************************************)
(* C30: cleanup removes the base image exactly when rebuild-base is set    *)
(* and removes every service image; in a run with rebuild-base that        *)
(* builds, the base image is built again before the first service image    *)
(* is built.                                                               *)
(***************************************************************************)
C30_Step ==
    /\ BASE_IMAGE \in images /\ BASE_IMAGE \notin images' =>
           args.rebuild_base /\ pc = "clean_rmi_base"
    /\ pc = "clean_rmi_base" /\ pc' = "clean_rmi_services" =>
        /\ args.rebuild_base => BASE_IMAGE \notin images'
        /\ ~args.rebuild_base => images' = images
        /\ args.rebuild_base <=>
               \E k \in NewPositions : log'[k][1] = "docker_rmi:" \o BASE_IMAGE
    /\ pc = "clean_rmi_services" /\ pc' = "clean_prune" =>
        /\ images' \cap ServiceNames = {}
        /\ images' \cap { BASE_IMAGE } = images \cap { BASE_IMAGE }
        /\ \A sv \in ServiceNames :
               \E k \in NewPositions : log'[k][1] = "docker_rmi:" \o sv
    /\ \A k \in NewPositions :
        log'[k][1] \in ServiceBuildOps /\ args.rebuild_base =>
            /\ BASE_IMAGE \in images
            /\ \E i \in 1..(k - 1) : log'[i] = << BaseBuildOp, 0 >>
C30_CleanupKeepsBaseImage == [][C30_Step]_vars

C30_Witness ==
    /\ args.rebuild_base /\ ~args.skip_cleanup
    /\ Ran("docker_rmi:" \o BASE_IMAGE)
    /\ RanOk(BaseBuildOp)
    /\ Ran("docker_build:" \o SERVICES[1])

(***************************************************************************)
(* test-api.py: the API smoke test.  It is a script of its own, run        *)
(* against the deployment that rebuild-and-deploy.py made (so kubectl is   *)
(* installed, check_prerequisites found it); it shares no state with the   *)
(* deployment script but the cluster.  ApiSpec is its state machine.       *)
(***************************************************************************)

\* the variables of rebuild-and-deploy.py, at rest while test-api.py runs
deployVars == << clusters, images, disk, failed_services, failed_loads,
                 toDelete, missing, errors, bootstrap_otp, podReady, pfState,
                 pfSignals, pending, report, toolsMissing, diagVars >>

\* answers that are not the expected one (a failed request, an interrupt) are
\* charged to the fault budget; two failures are needed to see what a second
\* failure does
MaxApiFaults == MaxFaults + 1
ApiCharge(bad) ==
    /\ bad => faults < MaxApiFaults
    /\ faults' = IF bad THEN faults + 1 ELSE faults

\* one test function: its name, the operation and resource kind it
\* exercises, and the context IDs its "if not ctx...: skip" guard asks for
Test(fn, op, kind, needs) ==
    [ fn |-> fn, op |-> op, kind |-> kind, needs |-> needs ]

\* run_misc_tests (2401-2406)
run_misc_tests ==
    << Test("test_metadata", "read", "metadata", {}),
       Test("test_user_current", "read", "user", {}),
       Test("test_audit_list", "list", "audit", {}) >>

\* run_infrastructure_provider_tests (2258-2262)
run_infrastructure_provider_tests ==
    << Test("test_infrastructure_provider", "lookup", "infra_provider", {}),
       Test("test_infrastructure_provider_stats", "read", "infra_provider", {}) >>

\* run_tenant_tests (2264-2269)
run_tenant_tests ==
    << Test("test_tenant_current", "lookup", "tenant", {}),
       Test("test_tenant_stats", "read", "tenant", { "tenant" }),
       Test("test_tenant_account_list", "list", "tenant_account", {}) >>

\* run_site_tests (2271-2278)
run_site_tests_get_first ==
    << Test("test_site_get", "get", "site", { "site" }),
       Test("test_site_create", "create", "site", {}),
       Test("test_site_list", "list", "site", {}),
       Test("test_site_update", "update", "site", { "site" }),
       Test("test_site_status_history", "read", "site", { "site" }) >>
run_site_tests ==
    << Test("test_site_create", "create", "site", {}),
       Test("test_site_get", "get", "site", { "site" }),
       Test("test_site_list", "list", "site", {}),
       Test("test_site_update", "update", "site", { "site" }),
       Test("test_site_status_history", "read", "site", { "site" }) >>

\* main (2493-2499): the optional site registration between the site tests
\* and the IP block tests
register_site ==
    << Test("perform_site_registration", "register", "site", { "site" }) >>

\* run_ip_block_tests (2280-2286)
run_ip_block_tests ==
    << Test("test_ip_block_create", "create", "ip_block", { "site" }),
       Test("test_ip_block_get", "get", "ip_block", { "ip_block" }),
       Test("test_ip_block_list", "list", "ip_block", {}),
       Test("test_ip_block_update", "update", "ip_block", { "ip_block" }) >>

\* run_instance_type_tests (2288-2294)
run_instance_type_tests ==
    << Test("test_instance_type_create", "create", "instance_type", { "site" }),
       Test("test_instance_type_get", "get", "instance_type",
            { "instance_type" }),
       Test("test_instance_type_list", "list", "instance_type", { "site" }),
       Test("test_instance_type_update", "update", "instance_type",
            { "instance_type" }) >>

\* run_machine_tests (2296-2301)
run_machine_tests ==
    << Test("test_machine_list", "list", "machine", { "site" }),
       Test("test_machine_get", "get", "machine", { "machine" }),
       Test("test_machine_capabilities", "read", "machine", { "site" }) >>

\* run_expected_machine_tests (2303-2309)
run_expected_machine_tests ==
    << Test("test_expected_machine_create", "create", "expected_machine",
            { "site" }),
       Test("test_expected_machine_get", "get", "expected_machine",
            { "expected_machine" }),
       Test("test_expected_machine_list", "list", "expected_machine",
            { "site" }),
       Test("test_expected_machine_update", "update", "expected_machine",
            { "expected_machine" }) >>

\* run_allocation_tests (2311-2318)
run_allocation_tests ==
    << Test("test_allocation_create", "create", "allocation",
            { "site", "instance_type", "tenant" }),
       Test("test_allocation_get", "get", "allocation", { "allocation" }),
       Test("test_allocation_list", "list", "allocation", {}),
       Test("test_allocation_update", "update", "allocation",
            { "allocation" }),
       Test("test_allocation_constraint_list", "list",
            "allocation_constraint", { "allocation" }) >>

\* run_vpc_tests (2320-2326)
run_vpc_tests ==
    << Test("test_vpc_create", "create", "vpc", { "site", "tenant" }),
       Test("test_vpc_get", "get", "vpc", { "vpc" }),
       Test("test_vpc_list", "list", "vpc", {}),
       Test("test_vpc_update", "update", "vpc", { "vpc" }) >>

\* run_vpc_prefix_tests (2328-2333)
run_vpc_prefix_tests ==
    << Test("test_vpc_prefix_create", "create", "vpc_prefix",
            { "vpc", "ip_block" }),
       Test("test_vpc_prefix_get", "get", "vpc_prefix", { "vpc_prefix" }),
       Test("test_vpc_prefix_list", "list", "vpc_prefix", { "site" }) >>

\* run_subnet_tests (2335-2341)
run_subnet_tests ==
    << Test("test_subnet_create", "create", "subnet", { "vpc", "ip_block" }),
       Test("test_subnet_get", "get", "subnet", { "subnet" }),
       Test("test_subnet_list", "list", "subnet", { "site" }),
       Test("test_subnet_update", "update", "subnet", { "subnet" }) >>

\* run_operating_system_tests (2343-2349)
run_operating_system_tests ==
    << Test("test_operating_system_create", "create", "operating_system",
            { "tenant" }),
       Test("test_operating_system_get", "get", "operating_system",
            { "operating_system" }),
       Test("test_operating_system_list", "list", "operating_system", {}),
       Test("test_operating_system_update", "update", "operating_system",
            { "operating_system" }) >>

\* run_ssh_key_tests (2351-2357)
run_ssh_key_tests ==
    << Test("test_ssh_key_create", "create", "ssh_key", { "tenant" }),
       Test("test_ssh_key_get", "get", "ssh_key", { "ssh_key" }),
       Test("test_ssh_key_list", "list", "ssh_key", {}),
       Test("test_ssh_key_update", "update", "ssh_key", { "ssh_key" }) >>

\* run_ssh_key_group_tests (2359-2364)
run_ssh_key_group_tests ==
    << Test("test_ssh_key_group_create", "create", "ssh_key_group",
            { "ssh_key", "site" }),
       Test("test_ssh_key_group_get", "get", "ssh_key_group",
            { "ssh_key_group" }),
       Test("test_ssh_key_group_list", "list", "ssh_key_group", {}) >>

\* run_infiniband_partition_tests (2366-2372)
run_infiniband_partition_tests ==
    << Test("test_infiniband_partition_create", "create",
            "infiniband_partition", { "site", "tenant" }),
       Test("test_infiniband_partition_get", "get", "infiniband_partition",
            { "infiniband_partition" }),
       Test("test_infiniband_partition_list", "list", "infiniband_partition",
            { "site" }),
       Test("test_infiniband_partition_update", "update",
            "infiniband_partition", { "infiniband_partition" }) >>

\* run_network_security_group_tests (2374-2380)
run_network_security_group_tests ==
    << Test("test_network_security_group_create", "create",
            "network_security_group", { "site", "tenant" }),
       Test("test_network_security_group_get", "get",
            "network_security_group", { "network_security_group" }),
       Test("test_network_security_group_list", "list",
            "network_security_group", {}),
       Test("test_network_security_group_update", "update",
            "network_security_group", { "network_security_group" }) >>

\* a delete test (1998-2256): skipped unless the ID of its kind is known
Delete(fn, kind) == Test(fn, "delete", kind, { kind })

\* run_cleanup_tests (2382-2399)
run_cleanup_tests_site_first ==
    << Delete("test_site_delete", "site"),
       Delete("test_network_security_group_delete", "network_security_group"),
       Delete("test_infiniband_partition_delete", "infiniband_partition"),
       Delete("test_ssh_key_group_delete", "ssh_key_group"),
       Delete("test_ssh_key_delete", "ssh_key"),
       Delete("test_operating_system_delete", "operating_system"),
       Delete("test_subnet_delete", "subnet"),
       Delete("test_vpc_prefix_delete", "vpc_prefix"),
       Delete("test_vpc_delete", "vpc"),
       Delete("test_allocation_delete", "allocation"),
       Delete("test_expected_machine_delete", "expected_machine"),
       Delete("test_instance_type_delete", "instance_type"),
       Delete("test_ip_block_delete", "ip_block") >>
run_cleanup_tests ==
    << Delete("test_network_security_group_delete", "network_security_group"),
       Delete("test_infiniband_partition_delete", "infiniband_partition"),
       Delete("test_ssh_key_group_delete", "ssh_key_group"),
       Delete("test_ssh_key_delete", "ssh_key"),
       Delete("test_operating_system_delete", "operating_system"),
       Delete("test_subnet_delete", "subnet"),
       Delete("test_vpc_prefix_delete", "vpc_prefix"),
       Delete("test_vpc_delete", "vpc"),
       Delete("test_allocation_delete", "allocation"),
       Delete("test_expected_machine_delete", "expected_machine"),
       Delete("test_instance_type_delete", "instance_type"),
       Delete("test_ip_block_delete", "ip_block"),
       Delete("test_site_delete", "site") >>

\* main (2479-2517): the calls it makes after authentication, in its order
Plan ==
    run_misc_tests \o run_infrastructure_provider_tests \o run_tenant_tests
    \o run_site_tests \o register_site
    \o run_ip_block_tests \o run_instance_type_tests \o run_machine_tests
    \o run_expected_machine_tests
    \o run_allocation_tests \o run_vpc_tests \o run_vpc_prefix_tests
    \o run_subnet_tests \o run_operating_system_tests \o run_ssh_key_tests
    \o run_ssh_key_group_tests \o run_infiniband_partition_tests
    \o run_network_security_group_tests
    \o run_cleanup_tests

\* what a passed test stores in ctx: "id" the ID of the answer (a create,
\* or the lookup of the current provider or tenant), "first" the ID of the
\* first element when the list is not empty (927-929, 1251-1252)
Stores(t) ==
    IF t.op \in { "create", "lookup" } THEN "id"
    ELSE IF t.fn \in { "test_machine_list", "test_allocation_constraint_list" }
         THEN "first"
         ELSE "none"

\* the context fields a test can fill in: nothing when it did not pass; the
\* created site comes with its registrationToken unless the answer lacks it
\* (623-624)
Got(t, ok) ==
    IF ~ok \/ Stores(t) = "none" THEN { {} }
    ELSE IF Stores(t) = "first" THEN { {}, { t.kind } }
    ELSE IF t.fn = "test_site_create"
         THEN { { t.kind, "site_registration_token" }, { t.kind } }
         ELSE { { t.kind } }

\* test_tenant_current (1091-1094) counts no tenant as a skip, not a failure
CountsAsSkip(t) == t.fn = "test_tenant_current"

\* print_all_service_logs (178-199): the five services whose pods' logs
\* are fetched with kubectl, whose exit codes change nothing
LogServices == << "cloud-api", "site-manager", "site-workflow",
                  "cloud-workflow", "carbide-site-agent" >>
print_all_service_logs_always(printed) == TRUE
print_all_service_logs(printed) == ~printed
CollectLogs ==
    IF print_all_service_logs(logs_already_printed)
    THEN /\ log' = log \o [ i \in 1..Len(LogServices) |->
                              << "kubectl_logs:" \o LogServices[i], 0 >> ]
         /\ logs_already_printed' = TRUE
    ELSE UNCHANGED << log, logs_already_printed >>

\* a test function's "stats.total += 1" and the one counter of its outcome
CountedOutcomeOnly(st, outcome) == [ st EXCEPT ![outcome] = @ + 1 ]
Counted(st, outcome) == [ st EXCEPT !.total = @ + 1, ![outcome] = @ + 1 ]

\* record_test_failure (120-124), after the test's stats.total += 1
record_test_failure ==
    /\ stats' = [ Counted(stats, "failed") EXCEPT !.failed_tests = @ + 1 ]
    /\ CollectLogs

\* the common shape of the test functions (541-2256): count the test, skip
\* it when a needed ID is missing, else send the request and count the answer
RunTest(t) ==
    /\ pc = "api_tests"
    /\ idx \in DOMAIN Plan
    /\ Plan[idx] = t
    /\ idx' = idx + 1
    /\ IF ~(t.needs \subseteq ctx.ids)
       THEN /\ stats' = Counted(stats, "skipped")
            /\ UNCHANGED << ctx, issued, log, logs_already_printed, faults >>
       ELSE /\ issued' = Append(issued, << t.op, t.kind >>)
            /\ \E ok \in BOOLEAN :
                \E got \in Got(t, ok) :
                    /\ ApiCharge(\/ ~ok /\ ~CountsAsSkip(t)
                                 \/ ok /\ t.fn = "test_site_create"
                                       /\ "site_registration_token" \notin got)
                    /\ ctx' = [ ctx EXCEPT !.ids = @ \cup got ]
                    /\ IF ok
                       THEN /\ stats' = Counted(stats, "passed")
                            /\ UNCHANGED << log, logs_already_printed >>
                       ELSE IF CountsAsSkip(t)
                       THEN /\ stats' = Counted(stats, "skipped")
                            /\ UNCHANGED << log, logs_already_printed >>
                       ELSE record_test_failure
    /\ UNCHANGED << pc, args, exitCode, published, children, held, reg,
                    deployVars >>

TestsOf(op) == { Plan[i] : i \in { j \in DOMAIN Plan : Plan[j].op = op } }
test_read == \E t \in TestsOf("read") : RunTest(t)
test_lookup == \E t \in TestsOf("lookup") : RunTest(t)
test_create == \E t \in TestsOf("create") : RunTest(t)
test_get == \E t \in TestsOf("get") : RunTest(t)
test_list == \E t \in TestsOf("list") : RunTest(t)
test_update == \E t \in TestsOf("update") : RunTest(t)
test_delete == \E t \in TestsOf("delete") : RunTest(t)

(***************************************************************************)
(* The site registration (201-397)                                         *)
(***************************************************************************)
NAMESPACE_SYSTEM == "carbide-system"

\* create_cert_secrets of rebuild-and-deploy.py (511-548): the namespace and
\* the --from-literal key under which each secret's value is stored
SecretNamespace ==
    [ n \in { "vault-root-ca-certificate", "vault-root-ca-private-key" } |->
        "carbide-system" ]
SecretKey ==
    [ n \in { "vault-root-ca-certificate" } |-> "certificate" ] @@
    [ n \in { "vault-root-ca-private-key" } |-> "privatekey" ]

\* kubectl keeps secret data base64 encoded; base64.b64decode undoes it
Plain == { "", "ca-cert", "ca-key", "other-ca" }
b64encode == [ v \in Plain |-> IF v = "" THEN "" ELSE "b64:" \o v ]
b64decode(x) == CHOOSE v \in Plain : b64encode[v] = x

ValueOf(name) ==
    IF \E o \in published : o[1] = name
    THEN (CHOOSE o \in published : o[1] = name)[2]
    ELSE ""
\* kubectl get secret <name> -n <namespace> -o jsonpath={.data.<key>}: the
\* encoded value of the key create_cert_secrets wrote, else what another
\* tool has put under that key, which is nothing when the secret has no
\* such key
GetSecretData(name, namespace, key, foreign) ==
    IF name \in DOMAIN SecretKey /\ SecretNamespace[name] = namespace
       /\ SecretKey[name] = key
    THEN b64encode[ValueOf(name)]
    ELSE b64encode[foreign]

\* the answers of GET /site/{id}: api_request gives (False, {}) for a failed
\* request, whose data.get defaults are "" and False
Statuses == { "", "Pending", "Error", "Registered", "Active" }
Responses ==
    { NoResponse } \cup
    [ success : { TRUE }, status : Statuses, isOnline : BOOLEAN ]

\* wait_for_handshake_via_api (305-315) and verify_site_registered_via_api
\* (325-336): what they take as done
HandshakeDone(r) ==
    r.success /\ ( \/ r.isOnline \/ r.status = "Registered"
                   \/ r.status \notin { "Pending", "Error" } )
RegisteredAnyAnswer(r) == r.success
Registered(r) == r.success /\ (r.status = "Registered" \/ r.isOnline)

HANDSHAKE_TIMEOUT == 90
POLL_SLEEP == 3

\* the loop test of wait_for_handshake_via_api (304), negated
HandshakeNeverExpires(elapsed) == FALSE
HandshakeExpired(elapsed) == ~(elapsed < HANDSHAKE_TIMEOUT)

Step(name, ok) == Append(reg.steps, << name, ok >>)
\* "return False" or "return True" of perform_site_registration
Return(name, ok, value) ==
    /\ pc' = "reg_return"
    /\ reg' = [ reg EXCEPT !.steps = Step(name, ok), !.result = value,
                           !.elapsed = 0 ]

\* main (2493-2494): the registration is asked for and the site exists
main_register ==
    /\ pc = "api_tests"
    /\ idx \in DOMAIN Plan
    /\ Plan[idx].op = "register"
    /\ IF args.register_site /\ Plan[idx].needs \subseteq ctx.ids
       THEN pc' = "reg_token" /\ UNCHANGED idx
       ELSE pc' = pc /\ idx' = idx + 1
    /\ UNCHANGED << args, log, exitCode, faults, published, apiVars,
                    deployVars >>

\* lines 344-347
check_registration_token ==
    /\ pc = "reg_token"
    /\ IF "site_registration_token" \notin ctx.ids
       THEN Return("token", FALSE, "False")
       ELSE pc' = "reg_ca" /\ reg' = [ reg EXCEPT !.steps = Step("token", TRUE) ]
    /\ UNCHANGED << args, log, exitCode, faults, idx, published, ctx, stats,
                    logs_already_printed, issued, children, held, deployVars >>

\* get_ca_cert (201-216) and lines 349-354: a failed kubectl gives None, an
\* absent key gives the empty string, and both are "not ca_cert"
get_ca_cert ==
    /\ pc = "reg_ca"
    /\ \E rc \in ExitCodes, foreign \in { "", "other-ca" } :
        /\ ApiCharge(rc # 0)
        /\ rc # 0 => foreign = ""
        /\ Logged("kubectl_get_secret:vault-root-ca-certificate", rc)
        /\ LET ca_cert == IF rc # 0 THEN ""
                          ELSE b64decode(GetSecretData(
                                   "vault-root-ca-certificate",
                                   NAMESPACE_SYSTEM, "ca-cert.pem", foreign))
           IN  IF ca_cert = ""
               THEN Return("ca_cert", FALSE, "False")
               ELSE /\ pc' = "reg_configmap"
                    /\ reg' = [ reg EXCEPT !.steps = Step("ca_cert", TRUE),
                                           !.ca_cert = ca_cert ]
    /\ UNCHANGED << args, exitCode, idx, published, ctx, stats,
                    logs_already_printed, issued, children, held, deployVars >>

\* update_site_agent_config (218-244) and lines 356-361
update_site_agent_config ==
    /\ pc = "reg_configmap"
    /\ \E rc \in ExitCodes :
        /\ ApiCharge(rc # 0)
        /\ Logged("kubectl_apply:site-agent-bootstrap", rc)
        /\ published' = Publish("site-agent-bootstrap", "registration-token", rc)
        /\ IF rc # 0
           THEN Return("configmap", FALSE, "False")
           ELSE /\ pc' = "reg_restart"
                /\ reg' = [ reg EXCEPT !.steps = Step("configmap", TRUE) ]
    /\ UNCHANGED << args, exitCode, idx, ctx, stats, logs_already_printed,
                    issued, children, held, deployVars >>

\* restart_site_agent (246-260) and lines 363-368: a failed restart is a
\* warning
restart_site_agent ==
    /\ pc = "reg_restart"
    /\ \E rc \in ExitCodes :
        /\ ApiCharge(rc # 0)
        /\ log' = log \o << << "kubectl_delete_pod:carbide-site-agent-0", 0 >>,
                            << "kubectl_wait:carbide-site-agent-0", rc >> >>
        /\ reg' = [ reg EXCEPT !.steps = Step("restart", rc = 0) ]
    /\ pc' = "reg_handshake"
    /\ UNCHANGED << args, exitCode, idx, published, ctx, stats,
                    logs_already_printed, issued, children, held, deployVars >>

\* wait_for_handshake_via_api (300-321) and lines 370-375: one turn of the
\* loop, or its end when the timeout has elapsed; a timeout is a warning.
\* The repeated request of the loop is entered in issued once.
wait_for_handshake_via_api ==
    /\ pc = "reg_handshake"
    /\ IF ~HandshakeExpired(reg.elapsed)
       THEN /\ issued' = IF reg.elapsed = 0
                         THEN Append(issued, << "get", "site" >>)
                         ELSE issued
            /\ \E r \in Responses :
                IF HandshakeDone(r)
                THEN /\ pc' = "reg_pf_spawn"
                     /\ reg' = [ reg EXCEPT !.steps = Step("handshake", TRUE),
                                            !.resp = r, !.elapsed = 0 ]
                ELSE /\ pc' = pc
                     /\ reg' = [ reg EXCEPT !.resp = r,
                                            !.elapsed = @ + POLL_SLEEP ]
       ELSE /\ pc' = "reg_pf_spawn"
            /\ reg' = [ reg EXCEPT !.steps = Step("handshake", FALSE),
                                   !.elapsed = 0 ]
            /\ UNCHANGED issued
    /\ UNCHANGED << args, log, exitCode, faults, idx, published, ctx, stats,
                    logs_already_printed, children, held, deployVars >>

\* call_register_endpoint (262-298): Popen (265-269)
register_pf_spawn ==
    /\ pc = "reg_pf_spawn"
    /\ children' = children \cup { "register_pf" }
    /\ reg' = [ reg EXCEPT !.resp = NoResponse ]
    /\ pc' = "reg_pf_sleep"
    /\ UNCHANGED << args, log, exitCode, faults, idx, published, ctx, stats,
                    logs_already_printed, issued, held, deployVars >>

\* time.sleep(3) (271), before the try statement is entered
register_pf_sleep ==
    /\ pc = "reg_pf_sleep"
    /\ pc' = "reg_call"
    /\ UNCHANGED << args, log, exitCode, faults, idx, published, apiVars,
                    deployVars >>

\* the request inside the try statement (273-295)
register_call ==
    /\ pc = "reg_call"
    /\ \E ok \in BOOLEAN :
        /\ ApiCharge(~ok)
        /\ reg' = [ reg EXCEPT !.steps = Step("register", ok) ]
    /\ pc' = "reg_pf_finally"
    /\ UNCHANGED << args, log, exitCode, idx, published, ctx, stats,
                    logs_already_printed, issued, children, held, deployVars >>

\* the finally block (296-298), then lines 379-382 or the interrupt going on
\* to main's handler
register_pf_finally ==
    /\ pc = "reg_pf_finally"
    /\ children' = children \ { "register_pf" }
    /\ IF reg.pending
       THEN /\ exitCode' = 130
            /\ pc' = "api_finally"
            /\ UNCHANGED reg
       ELSE /\ UNCHANGED exitCode
            /\ IF reg.steps[Len(reg.steps)] = << "register", TRUE >>
               THEN pc' = "reg_verify" /\ UNCHANGED reg
               ELSE /\ pc' = "reg_return"
                    /\ reg' = [ reg EXCEPT !.result = "False" ]
    /\ UNCHANGED << args, log, faults, idx, published, ctx, stats,
                    logs_already_printed, issued, held, deployVars >>

\* verify_site_registered_via_api (323-337) and lines 384-393
verify_site_registered_via_api ==
    /\ pc = "reg_verify"
    /\ issued' = Append(issued, << "get", "site" >>)
    /\ \E r \in Responses :
        /\ ApiCharge(~Registered(r))
        /\ pc' = "reg_return"
        /\ reg' = [ reg EXCEPT !.steps = Step("verify", Registered(r)),
                               !.resp = r,
                               !.result = IF Registered(r)
                                          THEN "True" ELSE "False" ]
    /\ UNCHANGED << args, log, exitCode, idx, published, ctx, stats,
                    logs_already_printed, children, held, deployVars >>

\* main (2494-2498): the result only selects a message and a sleep
registration_returned ==
    /\ pc = "reg_return"
    /\ pc' = "api_tests"
    /\ idx' = idx + 1
    /\ reg' = RegIdle
    /\ UNCHANGED << args, log, exitCode, faults, published, ctx, stats,
                    logs_already_printed, issued, children, held, deployVars >>

perform_site_registration ==
    \/ check_registration_token \/ get_ca_cert \/ update_site_agent_config
    \/ restart_site_agent \/ wait_for_handshake_via_api
    \/ register_pf_spawn \/ register_pf_sleep \/ register_call
    \/ register_pf_finally \/ verify_site_registered_via_api

(***************************************************************************)
(* main (2408-2542)                                                        *)
(***************************************************************************)
\* main (2471-2476): restart_site_manager_for_rbac (399-416) and the waits of
\* setup_port_forwards (421-432), unless --skip-setup; the exit codes of the
\* kubectl commands are discarded
SetupCmds == << "kubectl_delete_pods:site-manager", "kubectl_wait:site-manager",
                "kubectl_wait:keycloak", "kubectl_wait:cloud-api" >>
api_setup ==
    /\ pc = "api_setup"
    /\ IF ~args.skip_setup
       THEN /\ log' = log \o [ i \in 1..Len(SetupCmds) |-> << SetupCmds[i], 0 >> ]
            /\ pc' = "api_pf_keycloak"
       ELSE /\ UNCHANGED log
            /\ pc' = "api_auth"
    /\ UNCHANGED << args, exitCode, faults, idx, published, apiVars,
                    deployVars >>

\* setup_port_forwards: the two Popen calls (435-443)
setup_pf_keycloak ==
    /\ pc = "api_pf_keycloak"
    /\ children' = children \cup { "keycloak_pf" }
    /\ pc' = "api_pf_api"
    /\ UNCHANGED << args, log, exitCode, faults, idx, published, ctx, stats,
                    logs_already_printed, issued, held, reg, deployVars >>
setup_pf_api ==
    /\ pc = "api_pf_api"
    /\ children' = children \cup { "api_pf" }
    /\ pc' = "api_pf_sleep"
    /\ UNCHANGED << args, log, exitCode, faults, idx, published, ctx, stats,
                    logs_already_printed, issued, held, reg, deployVars >>

\* setup_port_forwards: the sleep and the return (446-449), and main's
\* assignment of the two handles (2474)
setup_pf_return ==
    /\ pc = "api_pf_sleep"
    /\ held' = { "keycloak_pf", "api_pf" }
    /\ pc' = "api_auth"
    /\ UNCHANGED << args, log, exitCode, faults, idx, published, ctx, stats,
                    logs_already_printed, issued, children, reg, deployVars >>

\* get_auth_token (451-477), main (2479): the token endpoint is Keycloak's,
\* whose answer to a granted request carries access_token; every other
\* answer raises in urlopen or json.loads and ends in sys.exit(1)
get_auth_token ==
    /\ pc = "api_auth"
    /\ \E ok \in BOOLEAN :
        /\ ApiCharge(~ok)
        /\ IF ok
           THEN /\ ctx' = [ ctx EXCEPT !.token = "token" ]
                /\ pc' = "api_tests"
                /\ UNCHANGED exitCode
           ELSE /\ exitCode' = 1
                /\ pc' = "api_finally"
                /\ UNCHANGED ctx
    /\ UNCHANGED << args, log, idx, published, stats, logs_already_printed,
                    issued, children, held, reg, deployVars >>

\* main (2519-2523): print_summary (62-83) and sys.exit
print_summary_passed == stats.passed > 0
print_summary == stats.failed = 0
api_summary ==
    /\ pc = "api_tests"
    /\ idx = Len(Plan) + 1
    /\ exitCode' = IF print_summary THEN 0 ELSE 1
    /\ pc' = "api_finally"
    /\ UNCHANGED << args, log, faults, idx, published, apiVars, deployVars >>

\* main (2525-2527): KeyboardInterrupt anywhere in main's try block; inside
\* the try statement of call_register_endpoint it passes through that
\* function's finally block first
ApiRunning == pc \notin { "api_finally", "reg_pf_finally", "exit" }
api_interrupt ==
    /\ ApiRunning
    /\ ApiCharge(TRUE)
    /\ IF pc = "reg_call"
       THEN /\ reg' = [ reg EXCEPT !.pending = TRUE ]
            /\ pc' = "reg_pf_finally"
            /\ UNCHANGED exitCode
       ELSE /\ exitCode' = 130
            /\ pc' = "api_finally"
            /\ UNCHANGED reg
    /\ UNCHANGED << args, log, idx, published, ctx, stats,
                    logs_already_printed, issued, children, held, deployVars >>

\* main (2529-2542): the finally block terminates the port forwards whose
\* handles main holds
api_finally ==
    /\ pc = "api_finally"
    /\ children' = children \ held
    /\ pc' = "exit"
    /\ UNCHANGED << args, log, exitCode, faults, idx, published, ctx, stats,
                    logs_already_printed, issued, held, reg, deployVars >>

\* main (2408-2468): the parsed flags; the cluster is as a finished run of
\* rebuild-and-deploy.py left it
ApiInit ==
    /\ pc = "api_setup"
    /\ args \in [ skip_setup : BOOLEAN, register_site : BOOLEAN ]
    /\ toolsMissing = {}
    /\ clusters = { CLUSTER_NAME }
    /\ images = {}
    /\ disk = {}
    /\ log = << >>
    /\ exitCode = -1
    /\ faults = 0
    /\ idx = 1
    /\ failed_services = {}
    /\ failed_loads = {}
    /\ toDelete = << >>
    /\ missing = {}
    /\ errors = {}
    /\ bootstrap_otp = "unset"
    /\ published = PreviousRunObjects
    /\ podReady = {}
    /\ pfState = "none"
    /\ pfSignals = 0
    /\ pending = FALSE
    /\ report = {}
    /\ ApiGlobals
    /\ DiagGlobals

ApiNext ==
    \/ api_setup \/ setup_pf_keycloak \/ setup_pf_api \/ setup_pf_return
    \/ get_auth_token
    \/ test_read \/ test_lookup \/ test_create \/ test_get \/ test_list
    \/ test_update \/ test_delete
    \/ main_register \/ perform_site_registration \/ registration_returned
    \/ api_summary \/ api_interrupt \/ api_finally

ApiSpec == ApiInit /\ [][ApiNext]_vars

(***************************************************************************)
(* The site registration on its own: main (2493-2499) has come to the      *)
(* registration after a run of the tests before it in which every request  *)
(* was answered as expected, except that the created site may have come    *)
(* without a registration token.                                           *)
(***************************************************************************)
RegisterAt == CHOOSE i \in DOMAIN Plan : Plan[i].op = "register"
RegInit ==
    /\ pc = "api_tests"
    /\ idx = RegisterAt
    /\ args \in [ skip_setup : { TRUE }, register_site : BOOLEAN ]
    /\ toolsMissing = {}
    /\ clusters = { CLUSTER_NAME }
    /\ images = {}
    /\ disk = {}
    /\ log = << >>
    /\ exitCode = -1
    /\ \E got \in { { "site", "site_registration_token" }, { "site" } } :
        /\ faults = IF "site_registration_token" \in got THEN 0 ELSE 1
        /\ ctx = [ token |-> "token", ids |-> { "infra_provider" } \cup got ]
    /\ stats = [ total |-> 13, passed |-> 11, failed |-> 0, skipped |-> 2,
                 failed_tests |-> 0 ]
    /\ issued = << << "read", "metadata" >>, << "read", "user" >>,
                   << "list", "audit" >>, << "lookup", "infra_provider" >>,
                   << "read", "infra_provider" >>, << "lookup", "tenant" >>,
                   << "list", "tenant_account" >>, << "create", "site" >>,
                   << "get", "site" >>, << "list", "site" >>,
                   << "update", "site" >>, << "read", "site" >> >>
    /\ logs_already_printed = FALSE
    /\ children = {}
    /\ held = {}
    /\ reg = RegIdle
    /\ DiagGlobals
    /\ failed_services = {}
    /\ failed_loads = {}
    /\ toDelete = << >>
    /\ missing = {}
    /\ errors = {}
    /\ bootstrap_otp = "unset"
    /\ published = PreviousRunObjects
    /\ podReady = {}
    /\ pfState = "none"
    /\ pfSignals = 0
    /\ pending = FALSE
    /\ report = {}

RegNext ==
    \/ main_register \/ perform_site_registration \/ registration_returned
    \/ api_interrupt \/ api_finally

\* The script is one thread: the interpreter goes on with the next statement
\* of perform_site_registration, and each request and each command it waits
\* for returns.  An interrupt may come, but need not.
RegFairSpec ==
    /\ RegInit
    /\ [][RegNext]_vars
    /\ WF_vars(main_register \/ perform_site_registration)

(***************************************************************************)
(* Vocabulary of the API smoke test claims                                 *)
(***************************************************************************)
Reverse(s) == [ i \in 1..Len(s) |-> s[Len(s) + 1 - i] ]

\* a test function is being executed by this step
TestStep ==
    /\ pc = "api_tests"
    /\ idx \in DOMAIN Plan
    /\ Plan[idx].op # "register"
    /\ idx' = idx + 1

\* the kinds of the tests of one operation that have been executed, in order
KindsRun(op) ==
    LET ts == SelectSeq(SubSeq(Plan, 1, idx - 1), LAMBDA t : t.op = op)
    IN  [ i \in 1..Len(ts) |-> ts[i].kind ]
HasRun(op, kind) == \E i \in 1..Len(KindsRun(op)) : KindsRun(op)[i] = kind

\* the kinds of the requests of one operation that have been sent, in order
KindsSent(op) ==
    LET rs == SelectSeq(issued, LAMBDA r : r[1] = op)
    IN  [ i \in 1..Len(rs) |-> rs[i][2] ]
Sent(op, kind) == \E i \in 1..Len(issued) : issued[i] = << op, kind >>

\* the kinds the script creates, and the created kinds whose ID the create
\* test of a kind asks for
CreatedKinds == { t.kind : t \in TestsOf("create") }
CreateNeeds(a) ==
    UNION { t.needs : t \in { u \in TestsOf("create") : u.kind = a } }
        \cap CreatedKinds

(***************************************************************************)
(* C25: run_cleanup_tests attempts the deletions in reverse dependency     *)
(* order: when the delete test of a kind B runs, the delete test of every  *)
(* kind A whose creation required the ID of B has run, and the delete      *)
(* request of A has been sent if A was created; the site is deleted last;  *)
(* the deletion order is the exact reverse of the creation order, for the  *)
(* tests executed and for the requests sent.                               *)
(***************************************************************************)
C25_Step ==
    TestStep /\ Plan[idx].op = "delete" =>
        LET b == Plan[idx].kind
            creates == KindsRun("create")
            deletes == KindsRun("delete")
        IN  /\ \A a \in CreatedKinds :
                   b \in CreateNeeds(a) =>
                       /\ HasRun("delete", a)
                       /\ a \in ctx.ids => Sent("delete", a)
            /\ b = "site" =>
                   \A a \in CreatedKinds \ { "site" } : HasRun("delete", a)
            /\ Len(creates) = Cardinality(CreatedKinds)
            /\ Len(deletes) < Len(creates)
            /\ b = creates[Len(creates) - Len(deletes)]
            /\ b \in ctx.ids <=> issued' = Append(issued, << "delete", b >>)
C25_Inv ==
    pc \in { "api_tests", "api_finally", "exit" } /\ idx = Len(Plan) + 1 =>
        /\ KindsRun("delete") = Reverse(KindsRun("create"))
        /\ KindsSent("delete") =
               Reverse(SelectSeq(KindsSent("create"), LAMBDA k : k \in ctx.ids))
C25_TeardownReverseOrder == []C25_Inv /\ [][C25_Step]_vars

\* every kind was created and the delete request of every kind was sent,
\* the site's last
C25_Witness ==
    /\ idx = Len(Plan) + 1
    /\ CreatedKinds \subseteq ctx.ids
    /\ Len(KindsSent("delete")) = Cardinality(CreatedKinds)
    /\ KindsSent("delete")[Len(KindsSent("delete"))] = "site"

(***************************************************************************)
(* C26: the service logs are collected at the first recorded test failure  *)
(* and at most once per run: the step that records the first failure       *)
(* fetches the logs of every service, a step that records a later failure  *)
(* counts it and runs no command, and no logs are fetched while no failure *)
(* is recorded.                                                            *)
(***************************************************************************)
LogOps == { "kubectl_logs:" \o LogServices[i] : i \in 1..Len(LogServices) }
Collections ==
    Cardinality({ i \in 1..Len(log) : log[i][1] = "kubectl_logs:" \o LogServices[1] })
C26_Inv ==
    /\ Collections <= 1
    /\ stats.failed = 0 => Collections = 0 /\ ~logs_already_printed
    /\ stats.failed > 0 => Collections = 1 /\ logs_already_printed
    /\ \A op \in LogOps :
           Cardinality({ i \in 1..Len(log) : log[i][1] = op }) = Collections
C26_Step ==
    /\ stats'.failed # stats.failed =>
        /\ stats'.failed = stats.failed + 1
        /\ stats'.total = stats.total + 1
        /\ IF stats.failed = 0
           THEN { log'[k][1] : k \in NewPositions } = LogOps
           ELSE log' = log
    /\ (\E k \in NewPositions : log'[k][1] \in LogOps) =>
           stats.failed = 0 /\ stats'.failed = 1
C26_LogsOnceAtFirstFailure == []C26_Inv /\ [][C26_Step]_vars

\* a second failure has been recorded
C26_Witness ==
    /\ stats.failed >= 2
    /\ Collections = 1
    /\ logs_already_printed

(***************************************************************************)
(* C27: no API request is sent before the authentication token has been    *)
(* obtained; when the get, list or update test of a created kind runs, the *)
(* create test of that kind has run; when the create test of a kind runs,  *)
(* the create tests of all kinds whose IDs it asks for have run, and when  *)
(* it sends its request those IDs are known.                               *)
(***************************************************************************)
C27_Step ==
    /\ issued' # issued => ctx.token = "token"
    /\ TestStep /\ Plan[idx].op \in { "get", "list", "update" }
                /\ Plan[idx].kind \in CreatedKinds =>
           HasRun("create", Plan[idx].kind)
    /\ TestStep /\ Plan[idx].op = "create" =>
        /\ \A b \in CreateNeeds(Plan[idx].kind) : HasRun("create", b)
        /\ issued' # issued =>
               \A b \in CreateNeeds(Plan[idx].kind) :
                   b \in ctx.ids /\ Sent("create", b)
C27_Inv ==
    /\ issued # << >> => ctx.token = "token"
    /\ ctx.token = "unset" => stats.total = 0 /\ idx = 1
C31_PortForwardsReleased == pc = "exit" => children = {}

(***************************************************************************)
(* C32: on every exit path of call_register_endpoint after its             *)
(* port-forward process was spawned, the process is terminated and waited  *)
(* for before the function is left: the process runs only while control is *)
(* inside call_register_endpoint.                                          *)
(***************************************************************************)
InCallRegisterEndpoint == pc \in { "reg_pf_sleep", "reg_call", "reg_pf_finally" }
C32_RegisterForwardReleased ==
    "register_pf" \in children => InCallRegisterEndpoint

(***************************************************************************)
(* C33: after create_cert_secrets published the CA certificate into the    *)
(* secret vault-root-ca-certificate, get_ca_cert reads that secret with    *)
(* the same name, namespace and data key, and when its kubectl command     *)
(* succeeds it returns exactly the published CA certificate.               *)
(***************************************************************************)
CaSecret == "vault-root-ca-certificate"
C33_Step ==
    /\ pc = "reg_ca"
    /\ Len(log') = Len(log) + 1
    /\ log'[Len(log')] = << "kubectl_get_secret:" \o CaSecret, 0 >>
    /\ CaSecret \in ObjectNames(published)
    => /\ pc' = "reg_configmap"
       /\ reg'.ca_cert = ValueOf(CaSecret)
C33_CaCertRoundTrip == [][C33_Step]_vars

(***************************************************************************)
(* C34: perform_site_registration runs its steps in the order token check, *)
(* CA certificate, ConfigMap update, site-agent restart, handshake wait,   *)
(* register call, verification; a failed token check, CA retrieval,        *)
(* ConfigMap update or register call is the last step executed; a failed   *)
(* restart or a handshake timeout is followed by the register call; and    *)
(* the function returns True exactly when the register call succeeded and  *)
(* the verification saw the site Registered or online.                     *)
(***************************************************************************)
RegOrder == << "token", "ca_cert", "configmap", "restart", "handshake",
               "register", "verify" >>
Gating == { "token", "ca_cert", "configmap", "register" }
RegSteps == { reg.steps[i] : i \in 1..Len(reg.steps) }
C34_Inv ==
    /\ Len(reg.steps) <= Len(RegOrder)
    /\ \A i \in 1..Len(reg.steps) :
        /\ reg.steps[i][1] = RegOrder[i]
        /\ i < Len(reg.steps) /\ reg.steps[i][1] \in Gating => reg.steps[i][2]
    /\ pc = "reg_return" =>
        /\ reg.steps # << >>
        /\ LET last == reg.steps[Len(reg.steps)]
           IN  \/ last[1] \in Gating /\ ~last[2]
               \/ last[1] = "verify"
        /\ reg.result \in { "True", "False" }
        /\ reg.result = "True" <=>
               /\ << "register", TRUE >> \in RegSteps
               /\ << "verify", TRUE >> \in RegSteps
        /\ reg.result = "True" =>
               reg.resp.success /\ ( \/ reg.resp.status = "Registered"
                                     \/ reg.resp.isOnline )
    /\ reg.result # "none" => pc \in { "reg_return", "api_finally", "exit" }
C34_Step ==
    Len(reg'.steps) > Len(reg.steps) =>
        /\ reg'.steps = Append(reg.steps, reg'.steps[Len(reg'.steps)])
        /\ reg'.steps[Len(reg'.steps)][1] \in { "ca_cert", "configmap", "restart" }
               => Len(log') > Len(log)
        /\ reg'.steps[Len(reg'.steps)][1] \notin { "ca_cert", "configmap", "restart" }
               => log' = log
C34_RegistrationGating == []C34_Inv /\ [][C34_Step]_vars

\* the restart failed and the handshake wait timed out, yet the register
\* endpoint was called and the site verified
C34_Witness ==
    /\ pc = "reg_return"
    /\ reg.result = "True"
    /\ << "restart", FALSE >> \in RegSteps
    /\ << "handshake", FALSE >> \in RegSteps

(***************************************************************************)
(* C35: with every API request and every external command returning, the   *)
(* handshake wait stops polling once its timeout has elapsed and then      *)
(* reports False, and perform_site_registration, once entered, returns to  *)
(* main (or the run is ended by an interrupt).                             *)
(***************************************************************************)
C35_Bounded ==
    /\ reg.elapsed <= HANDSHAKE_TIMEOUT
    /\ reg.elapsed > 0 => pc \in { "reg_handshake", "api_finally", "exit" }
C35_RegistrationTerminates ==
    /\ []C35_Bounded
    /\ (pc = "reg_handshake") ~> (pc # "reg_handshake")
    /\ (pc = "reg_token") ~> (pc \in { "reg_return", "api_finally" })

\* the handshake wait ran into its timeout
C35_Witness ==
    /\ pc = "reg_return"
    /\ << "handshake", FALSE >> \in RegSteps

(***************************************************************************)
(* C36: wait_for_handshake_via_api returns True only if a successful       *)
(* status request showed the site online or with the status Registered or  *)
(* Active; an answer without a status field and not online, or with the    *)
(* status Pending or Error, is never taken as a completed handshake.       *)
(***************************************************************************)
C36_HandshakeOnlyAfterPending ==
    pc = "reg_pf_spawn" /\ reg.steps[Len(reg.steps)] = << "handshake", TRUE >> =>
        /\ reg.resp.success
        /\ reg.resp.isOnline \/ reg.resp.status \in { "Registered", "Active" }

(***************************************************************************)
(* C37: after every completed test function total = passed + failed +      *)
(* skipped and failed_tests has as many names as failed counts; every test *)
(* function adds one to total and one to exactly one of passed, failed,    *)
(* skipped.                                                                *)
(***************************************************************************)
C37_Inv ==
    /\ stats.total = stats.passed + stats.failed + stats.skipped
    /\ stats.failed_tests = stats.failed
C37_Step ==
    /\ TestStep =>
        /\ stats'.total = stats.total + 1
        /\ \E one \in { "passed", "failed", "skipped" } :
            /\ stats'[one] = stats[one] + 1
            /\ \A other \in { "passed", "failed", "skipped" } \ { one } :
                   stats'[other] = stats[other]
    /\ ~TestStep => stats' = stats
C37_StatisticsAddUp == []C37_Inv /\ [][C37_Step]_vars

\* tests have passed, failed and been skipped
C37_Witness ==
    /\ stats.passed > 0
    /\ stats.failed > 1
    /\ stats.skipped > 0

(***************************************************************************)
(* C38: the harness exits 0 exactly when the run reached the summary with  *)
(* failed = 0, whatever was skipped; it exits 1 when the summary is        *)
(* reached with a failed test, or when no token could be obtained, in      *)
(* which case no test was run; it exits 130 on an operator interrupt.      *)
(***************************************************************************)
AtSummary == pc = "api_tests" /\ idx = Len(Plan) + 1
C38_Step ==
    /\ exitCode' # exitCode =>
        /\ exitCode = -1
        /\ exitCode' \in { 0, 1, 130 }
        /\ exitCode' = 0 => AtSummary /\ stats.failed = 0
        /\ exitCode' = 1 =>
               \/ AtSummary /\ stats.failed > 0
               \/ pc = "api_auth" /\ ctx.token = "unset" /\ ctx' = ctx
        /\ exitCode' = 130 => faults' > faults \/ reg.pending
    /\ AtSummary /\ pc' # pc /\ faults' = faults =>
           exitCode' = IF stats.failed = 0 THEN 0 ELSE 1
    /\ pc = "api_auth" /\ pc' = "api_tests" => ctx'.token # "unset"
C38_Inv ==
    /\ pc = "exit" => exitCode \in { 0, 1, 130 }
    /\ exitCode = 0 => stats.failed = 0 /\ stats.total = Len(Plan) - 1
    /\ ctx.token = "unset" => stats.total = 0 /\ issued = << >>
    /\ exitCode = 1 => stats.failed > 0 \/ ctx.token = "unset"
LONGER_CLUSTER == "carbide-single-site-2"
\* the text of a cluster name, cut so that every occurrence of CLUSTER_NAME
\* in it is a piece of its own
Pieces(name) ==
    CASE name = CLUSTER_NAME -> << CLUSTER_NAME >>
      [] name = LONGER_CLUSTER -> << CLUSTER_NAME, "-2" >>
      [] OTHER -> << name >>

\* run_command (32-42) on "kind get clusters": the names one per line, or
\* the text of the exception when kind cannot be started
RECURSIVE Lines(_)
Lines(names) ==
    IF names = {} THEN << >>
    ELSE LET n == CHOOSE n \in names : TRUE
         IN  Pieces(n) \o << "\n" >> \o Lines(names \ { n })
KindGetClusters ==
    IF "kind" \in toolsMissing
    THEN << "Error running command: ", "kind" >>
    ELSE Lines(clusters)

\* Python's "needle in text" on the pieces of the text
In(needle, text) == \E i \in 1..Len(text) : text[i] = needle

\* check_cluster_exists (45-60): the value it returns
check_cluster_exists(output) == In(CLUSTER_NAME, output)

\* main (245-253)
diag_check_cluster ==
    /\ pc = "diag_cluster"
    /\ IF check_cluster_exists(KindGetClusters)
       THEN /\ Logged("kubectl_cluster-info", 0)
            /\ pc' = "diag_pods"
            /\ UNCHANGED exitCode
       ELSE /\ Exit(1)
            /\ UNCHANGED log
    /\ UNCHANGED << args, faults, idx, published, apiVars, deployVars >>

\* what kubectl get pods -o json can answer for one namespace: text that is
\* not JSON (an error), or a list of pods; a ready container is running
ContainerStates == { "running", "waiting:CrashLoopBackOff", "terminated" }
Containers ==
    { c \in [ ready : BOOLEAN, state : ContainerStates ] :
          c.ready => c.state = "running" }
ContainerLists ==
    { << >> } \cup { << c >> : c \in Containers }
              \cup { << c, d >> : c \in Containers, d \in Containers }
Phases == { "Running", "Pending", "Failed" }
PodsOf(namespace) ==
    [ name : { "pod-of-" \o namespace }, phase : Phases,
      containerStatuses : ContainerLists ]
PodAnswers(namespace) ==
    { NotAsked } \cup
    [ parsed : { TRUE },
      items : { << >> } \cup { << p >> : p \in PodsOf(namespace) } ]

\* lines 120-129
IssueType(state) ==
    CASE state = "running" -> "Unknown"
      [] state = "terminated" -> "Terminated"
      [] OTHER -> "CrashLoopBackOff"

\* lines 95-131 for one pod: an entry for each of its container statuses that
\* is not ready or whose pod is not Running
RECURSIVE IssuesOfPod(_, _, _)
IssuesOfPod(namespace, pod, i) ==
    IF i > Len(pod.containerStatuses) THEN << >>
    ELSE LET container == pod.containerStatuses[i]
             rest == IssuesOfPod(namespace, pod, i + 1)
         IN  IF ~container.ready \/ pod.phase # "Running"
             THEN << [ namespace |-> namespace, pod |-> pod.name,
                       container |-> i, phase |-> pod.phase,
                       ready |-> container.ready,
                       issue_type |-> IssueType(container.state) ] >> \o rest
             ELSE rest
RECURSIVE IssuesOf(_, _, _)
IssuesOf(namespace, items, k) ==
    IF k > Len(items) THEN << >>
    ELSE IssuesOfPod(namespace, items[k], 1) \o IssuesOf(namespace, items, k + 1)

\* get_pod_status (63-136): one turn of the loop over NAMESPACES
get_pod_status ==
    /\ pc = "diag_pods"
    /\ idx \in 1..Len(NAMESPACES)
    /\ LET namespace == NAMESPACES[idx]
       IN  \E answer \in PodAnswers(namespace) :
            /\ pods' = [ pods EXCEPT ![idx] = answer ]
            /\ pod_issues' = pod_issues \o IssuesOf(namespace, answer.items, 1)
            /\ log' = log \o << << "kubectl_get_pods_json:" \o namespace, 0 >> >>
                          \o IF answer.items # << >>
                             THEN << << "kubectl_get_pods_wide:" \o namespace, 0 >> >>
                             ELSE << >>
    /\ IF idx = Len(NAMESPACES)
       THEN pc' = "diag_diagnose" /\ idx' = 1
       ELSE pc' = pc /\ idx' = idx + 1
    /\ UNCHANGED << args, toolsMissing, exitCode, faults, published, apiVars,
                    clusters, images, disk, failed_services, failed_loads,
                    toDelete, missing, errors, bootstrap_otp, podReady,
                    pfState, pfSignals, pending, report >>

\* diagnose_pod_issues (149-230): the commands run for the issues
RECURSIVE DiagnoseCmds(_, _)
DiagnoseCmds(issues, k) ==
    IF k > Len(issues) THEN << >>
    ELSE LET info == issues[k]
         IN  << << "kubectl_describe_pod:" \o info.pod, 0 >>,
                << "kubectl_logs:" \o info.pod, 0 >> >>
             \o ( IF info.issue_type \in { "CrashLoopBackOff", "Error" }
                  THEN << << "kubectl_logs_previous:" \o info.pod, 0 >> >>
                  ELSE << >> )
             \o DiagnoseCmds(issues, k + 1)

\* diagnose_pod_issues (139-147)
diagnose_pod_issues ==
    /\ pc = "diag_diagnose"
    /\ IF pod_issues = << >>
       THEN /\ report' = { "No pod issues detected" }
            /\ UNCHANGED log
       ELSE /\ report' = { "Found pod issues to diagnose" }
            /\ log' = log \o DiagnoseCmds(pod_issues, 1)
    /\ pc' = "diag_services"
    /\ UNCHANGED << args, toolsMissing, exitCode, faults, idx, published,
                    apiVars, diagVars, clusters, images, disk, failed_services,
                    failed_loads, toDelete, missing, errors, bootstrap_otp,
                    podReady, pfState, pfSignals, pending >>

\* check_services (233-242) and the end of main (264-276)
check_services ==
    /\ pc = "diag_services"
    /\ log' = log \o [ n \in 1..Len(NAMESPACES) |->
                         << "kubectl_get_svc:" \o NAMESPACES[n], 0 >> ]
    /\ Exit(0)
    /\ UNCHANGED << args, faults, idx, published, apiVars, deployVars >>

\* the host the diagnostics are started on: any of three clusters may exist,
\* kind may be missing
DiagInit ==
    /\ pc = "diag_cluster"
    /\ args = [ skip_setup |-> FALSE, register_site |-> FALSE ]
    /\ toolsMissing \in SUBSET { "kind" }
    /\ clusters \in SUBSET { CLUSTER_NAME, LONGER_CLUSTER, OTHER_CLUSTER }
    /\ images = {}
    /\ disk = {}
    /\ log = << >>
    /\ exitCode = -1
    /\ faults = 0
    /\ idx = 1
    /\ failed_services = {}
    /\ failed_loads = {}
    /\ toDelete = << >>
    /\ missing = {}
    /\ errors = {}
    /\ bootstrap_otp = "unset"
    /\ published = {}
    /\ podReady = {}
    /\ pfState = "none"
    /\ pfSignals = 0
    /\ pending = FALSE
    /\ report = {}
    /\ ApiGlobals
    /\ DiagGlobals

DiagNext ==
    \/ diag_check_cluster \/ get_pod_status \/ diagnose_pod_issues
    \/ check_services

DiagSpec == DiagInit /\ [][DiagNext]_vars

(***************************************************************************)
(* C39: every pod of an inspected namespace that is not in phase Running   *)
(* or has a container that is not ready has at least one entry among the   *)
(* issues get_pod_status returns, pods without container statuses          *)
(* included, and "No pod issues detected" is reported only when every pod  *)
(* is Running with all its containers ready.                               *)
(***************************************************************************)
Unhealthy(pod) ==
    \/ pod.phase # "Running"
    \/ \E i \in 1..Len(pod.containerStatuses) : ~pod.containerStatuses[i].ready
C39_DetectionComplete ==
    pc \in { "diag_diagnose", "diag_services", "exit" } =>
        /\ \A n \in 1..Len(NAMESPACES) : \A k \in 1..Len(pods[n].items) :
            Unhealthy(pods[n].items[k]) =>
                \E j \in 1..Len(pod_issues) :
                    /\ pod_issues[j].namespace = NAMESPACES[n]
                    /\ pod_issues[j].pod = pods[n].items[k].name
        /\ "No pod issues detected" \in report =>
            \A n \in 1..Len(NAMESPACES) : \A k \in 1..Len(pods[n].items) :
                ~Unhealthy(pods[n].items[k])

(***************************************************************************)
(* C40: check_cluster_exists returns True exactly when a cluster named     *)
(* carbide-single-site is among the existing clusters that kind lists, a   *)
(* longer name that contains it not counting; when it returns False the    *)
(* diagnostics exit with code 1 and have inspected no pod and no service.  *)
(***************************************************************************)
Proceeded == pc # "exit" \/ exitCode = 0
C40_ClusterCheck ==
    pc # "diag_cluster" =>
        /\ Proceeded <=> "kind" \notin toolsMissing /\ CLUSTER_NAME \in clusters
        /\ ~Proceeded => /\ exitCode = 1
                         /\ log = << >>
                         /\ pod_issues = << >>
                         /\ \A n \in 1..Len(NAMESPACES) : pods[n] = NotAsked

====
